---- MODULE Spec2Model ----
(***************************************************************************)
(* A model of afb's construction engine: Manufacturer (the Registry of     *)
(* factories of one class), Broker (the Directory of Manufacturers),       *)
(* Factory (a construction unit), the TypeSpec / ObjectSpec manifest       *)
(* grammar and PostorderDFS (the explicit-stack evaluator).                *)
(*                                                                         *)
(* Python strings that the code splits and concatenates (factory keys,     *)
(* merge roots, separators) are sequences of tokens; a token stands for a  *)
(* substring without "/", and "/" is a token of its own.                   *)
(***************************************************************************)
EXTENDS Integers, Sequences, FiniteSets, TLC

VARIABLES
  user_fcts,     \* Manufacturer._user_fcts: per registry, an insertion-ordered dict
  builtin_fcts,  \* Manufacturer._builtin_fcts
  default,       \* Manufacturer._default
  next_id,       \* identity of the next Factory object to be constructed
  broker_mfrs,   \* Broker._mfrs: per Broker and class, the registered Manufacturer
  brokers,       \* per Broker: held by the application, dropped, or collected
  broker_ref,    \* Manufacturer._broker_ref: per registry, the Broker bound
  bind_attr,     \* per registry, what its attribute _bind holds
  dfs,           \* the PostorderDFS run in progress: stack, result, calls
  threads,       \* per thread: the call it runs, its position and its locals
  locks,         \* per RLock (of a Broker or a Manufacturer): owner and depth
  last           \* the last call: its arguments and its outcome

regvars == <<user_fcts, builtin_fcts, default, next_id>>
brkvars == <<broker_mfrs, brokers, broker_ref, bind_attr>>
thrvars == <<threads, locks>>
vars == <<regvars, brkvars, dfs, thrvars, last>>

----------------------------------------------------------------------------
(* Bounds *)

\* Factory objects constructed by Manufacturer.register in one behaviour.
MaxFactories == 2
\* Entries of the user partition of one Manufacturer.
MaxEntries == 2
\* Longest factory key, in tokens, that a merge may produce.
MaxKeyLen == 3

----------------------------------------------------------------------------
(* Strings and keys: afb/utils/misc.py *)

SEP == "/"
RESERVED == "afb"

\* Python's None where the code expects an optional str: a one-token value
\* outside the alphabet of the keys.
None == <<"<None>">>

Min(S) == CHOOSE x \in S : \A y \in S : x <= y

\* name.split(SEP)[0]
FirstSegment(name) ==
  LET idx == {i \in 1..Len(name) : name[i] = SEP}
  IN  IF idx = {} THEN name ELSE SubSeq(name, 1, Min(idx) - 1)

is_reserved(name) == FirstSegment(name) = <<RESERVED>>

\* SEP.join((_RESERVED,) + args) for one argument
join_reserved(k) == <<RESERVED, SEP>> \o k

\* "%s%s%s" % (root, sep, name), or name when root is None
merged_name(root, name, sep) ==
  IF root = None THEN name ELSE root \o sep \o name

----------------------------------------------------------------------------
(* Classes and registries *)

\* Target classes; "A1" is a subclass of "A".
Classes == {"A", "A1"}
issubclass(c, d) == c = d \/ (c = "A1" /\ d = "A") \/ d = "object"

\* The Manufacturer objects of a behaviour, each constructed for its class.
Mfrs == {"m1", "m2"}
cls(m) ==
  CASE m = "m1" -> "A"
    [] m = "m2" -> "A1"
    [] m \in {"mA", "autoA", "auto2A", "t1A", "t2A", "t3A"} -> "A"
    [] m \in {"mB", "autoB", "auto2B", "mB2", "t1B", "t2B", "t3B"} -> "B"
    [] m \in {"mC", "autoC", "auto2C"} -> "C"
    [] m = "autoD" -> "dict"
MfrIdx(m) ==
  CASE m = "m1" -> 1 [] m = "m2" -> 2
    [] m = "mA" -> 3 [] m = "mB" -> 4 [] m = "mC" -> 5
    [] m = "autoA" -> 6 [] m = "autoB" -> 7 [] m = "autoC" -> 8
    [] m = "auto2A" -> 9 [] m = "auto2B" -> 10 [] m = "auto2C" -> 11
    [] m = "mB2" -> 12
    [] m = "t1A" -> 13 [] m = "t2A" -> 14 [] m = "t3A" -> 15
    [] m = "t1B" -> 16 [] m = "t2B" -> 17 [] m = "t3B" -> 18
    [] m = "autoD" -> 19

\* A Factory object: its identity, the class it was constructed for and the
\* registrant (callable, signature, defaults) it wraps.
NewFactory(id, c, tmpl) == [id |-> id, cls |-> c, tmpl |-> tmpl]
\* dict.get's None
NoFct == [id |-> 0, cls |-> "None", tmpl |-> "None"]

\* builtins_.FACTORY_MAKERS: the builtin factory every Manufacturer installs
BuiltinKey == <<"from_config">>
BuiltinFactory(m) == NewFactory(0 - MfrIdx(m), cls(m), "from_config")

----------------------------------------------------------------------------
(* Insertion-ordered dicts: sequences of <<key, value>> pairs *)

DictKeys(d) == {d[i][1] : i \in 1..Len(d)}
KeyList(d) == [i \in 1..Len(d) |-> d[i][1]]
DictGet(d, k, dflt) ==
  IF k \in DictKeys(d)
  THEN d[CHOOSE i \in 1..Len(d) : d[i][1] = k][2]
  ELSE dflt
\* d.setdefault(k, v): an assignment that would keep an existing value
DictSetDefault(d, k, v) ==
  IF k \in DictKeys(d) THEN d ELSE Append(d, <<k, v>>)
\* d[k] = v: an existing key keeps its position, a new key goes last
DictSet(d, k, v) ==
  IF k \in DictKeys(d)
  THEN [i \in 1..Len(d) |-> IF d[i][1] = k THEN <<k, v>> ELSE d[i]]
  ELSE Append(d, <<k, v>>)

----------------------------------------------------------------------------
(* Manufacturer: afb/core/manufacturer.py *)

\* Manufacturer.__contains__
contains(m, key) ==
  key \in DictKeys(builtin_fcts[m]) \/ key \in DictKeys(user_fcts[m])

\* A lookup that would try the user partition first
get_user_first(bf, uf, key) ==
  IF key \in DictKeys(uf) THEN DictGet(uf, key, NoFct)
  ELSE DictGet(bf, key, NoFct)
\* A lookup that would ignore the reserved namespace
get_user_only(bf, uf, key) ==
  DictGet(uf, key, NoFct)
\* Manufacturer.get on the partitions bf (builtin) and uf (user)
get_in(bf, uf, key) ==
  LET reg == IF is_reserved(key) THEN bf ELSE uf
  IN  DictGet(reg, key, NoFct)

\* Manufacturer.get
get(m, key) == get_in(builtin_fcts[m], user_fcts[m], key)

\* Manufacturer._register: the outcome of registering in the dict uf.
\*   factory: a Factory object, NoFct for None, or a registrant to wrap
\*   (id = next_id) when signature is given.
_register(uf, bf, key, factory, has_signature, override, builtins) ==
  LET k == IF builtins /\ ~is_reserved(key) THEN join_reserved(key) ELSE key
  IN
  IF ~has_signature /\ factory # NoFct
  THEN \* the block for Manufacturer merges
       IF k \in DictKeys(uf) /\ ~override
       THEN [err |-> "KeyConflictError", uf |-> uf, bf |-> bf]
       ELSE [err |-> "none", uf |-> DictSet(uf, k, factory), bf |-> bf]
  ELSE IF factory = NoFct
  THEN \* validate.is_callable(None, "factory")
       [err |-> "TypeError", uf |-> uf, bf |-> bf]
  ELSE LET registry == IF builtins THEN bf ELSE uf
       IN  IF k \in DictKeys(registry) /\ ~override
           THEN [err |-> "KeyConflictError", uf |-> uf, bf |-> bf]
           ELSE IF builtins
                THEN [err |-> "none", uf |-> uf, bf |-> DictSet(bf, k, factory)]
                ELSE [err |-> "none", uf |-> DictSet(uf, k, factory), bf |-> bf]

\* Manufacturer._install_builtins, from Manufacturer.__init__
_install_builtins(m) ==
  _register(<<>>, <<>>, join_reserved(BuiltinKey), BuiltinFactory(m),
            TRUE, FALSE, TRUE).bf

\* Manufacturer._validate_merge: "none", or the error and the colliding keys
_validate_merge(self, mfr, key, override, ignore_collision, sep) ==
  IF ~issubclass(cls(mfr), cls(self))
  THEN [err |-> "TypeError", collisions |-> {}]
  ELSE IF override \/ ignore_collision
  THEN [err |-> "none", collisions |-> {}]
  ELSE LET merged_names ==
             {merged_name(key, n, sep) : n \in DictKeys(user_fcts[mfr])}
           collisions == merged_names \cap DictKeys(user_fcts[self])
       IN  IF collisions # {}
           THEN [err |-> "KeyConflictError", collisions |-> collisions]
           ELSE [err |-> "none", collisions |-> {}]

\* Manufacturer._merge: the loop over mfr.keys(), from its i-th key on.
\*   uf: self._user_fcts so far; keys: the keys of mfr in dict order;
\*   same: mfr is self, whose dict the loop then iterates while it grows
\*   (Python raises RuntimeError at the next step of such an iteration).
RECURSIVE merge_loop(_, _, _, _, _, _, _)
merge_loop(uf, bf, keys, i, muf, mbf, a) ==
  IF a.same /\ Len(uf) # Len(keys)
  THEN [err |-> "RuntimeError", uf |-> uf]
  ELSE IF i > Len(keys)
  THEN [err |-> "none", uf |-> uf]
  ELSE LET fct == get_in(mbf, IF a.same THEN uf ELSE muf, keys[i])
           key == merged_name(a.root, keys[i], a.sep)
           r   == _register(uf, bf, key, fct, FALSE, a.override, FALSE)
       IN  IF r.err = "KeyConflictError" /\ a.ignore_collision
           THEN merge_loop(uf, bf, keys, i + 1, muf, mbf, a)
           ELSE IF r.err # "none"
           THEN [err |-> r.err, uf |-> uf]
           ELSE merge_loop(r.uf, bf, keys, i + 1, muf, mbf, a)

_merge(self, mfr, root, override, ignore_collision, sep) ==
  merge_loop(user_fcts[self], builtin_fcts[self], KeyList(user_fcts[mfr]), 1,
             user_fcts[mfr], builtin_fcts[mfr],
             [root |-> root, sep |-> sep, override |-> override,
              ignore_collision |-> ignore_collision, same |-> self = mfr])

\* Manufacturer.merge: validation of the whole batch, then the merge
merge(self, mfr, root, override, ignore_collision, sep) ==
  LET v == _validate_merge(self, mfr, root, override, ignore_collision, sep)
  IN  IF v.err # "none"
      THEN [err |-> v.err, collisions |-> v.collisions, uf |-> user_fcts[self]]
      ELSE LET r == _merge(self, mfr, root, override, ignore_collision, sep)
           IN  [err |-> r.err, collisions |-> {}, uf |-> r.uf]

----------------------------------------------------------------------------
(* Inputs of the calls *)

\* Keys a caller registers under: a plain key, a key in the reserved
\* namespace and the key of the builtin factory itself.
RegisterKeys == {<<"k">>, <<"afb", "/", "k">>, join_reserved(BuiltinKey)}
\* (root, sep) arguments of merge
MergeRoots == {<<None, <<"/">>>>, <<<<"r">>, <<"/">>>>, <<<<"r">>, <<".">>>>,
               <<<<"afb">>, <<"/">>>>}
Registrants == {"create"}

\* dict.get's None for Broker._mfrs, and an unset Manufacturer._broker_ref
NoMfr == "<no mfr>"
NoBroker == "<no broker>"
\* The Broker objects: the one the calls of make go through, and another
TheBroker == "brk"
Brokers == {TheBroker, "brk2"}
\* No PostorderDFS run in progress
Idle == [phase |-> "idle"]
\* No threads besides the caller's: nothing runs concurrently, no lock is held
NoThreads == <<>>
NoLocks == <<>>

\* The record of a call: its arguments and its outcome.
NoCall == [op |-> "init", m |-> "m1", key |-> None, mfr |-> "m1", root |-> None,
           sep |-> <<"/">>, override |-> FALSE, ignore_collision |-> FALSE,
           err |-> "none", collisions |-> {}, fct |-> NoFct,
           inputs |-> [none |-> TRUE], result |-> [none |-> TRUE],
           calls |-> <<>>, what |-> "none", listed |-> {},
           broker |-> TheBroker]

----------------------------------------------------------------------------
(* The registry operations *)

Init ==
  /\ user_fcts = [m \in Mfrs |-> <<>>]
  /\ builtin_fcts = [m \in Mfrs |-> _install_builtins(m)]
  /\ default = [m \in Mfrs |-> None]
  /\ next_id = 1
  /\ broker_mfrs = [b \in Brokers |-> [c \in Classes |-> NoMfr]]
  /\ brokers = [b \in Brokers |-> "held"]
  /\ broker_ref = [m \in Mfrs |-> NoBroker]
  /\ bind_attr = [m \in Mfrs |-> "method"]
  /\ dfs = Idle
  /\ threads = NoThreads
  /\ locks = NoLocks
  /\ last = NoCall

\* Manufacturer.register(key, factory, signature, override=override)
Register(m, key, tmpl, override) ==
  /\ next_id <= MaxFactories
  /\ LET fct == NewFactory(next_id, cls(m), tmpl)
         r   == _register(user_fcts[m], builtin_fcts[m], key, fct,
                          TRUE, override, FALSE)
     IN  /\ Len(r.uf) <= MaxEntries
         /\ user_fcts' = [user_fcts EXCEPT ![m] = r.uf]
         /\ next_id' = IF r.err = "none" THEN next_id + 1 ELSE next_id
         /\ last' = [NoCall EXCEPT !.op = "register", !.m = m, !.key = key,
                       !.override = override, !.err = r.err, !.fct = fct]
  /\ UNCHANGED <<thrvars, builtin_fcts, default, brkvars, dfs>>

\* Manufacturer.merge(mfr, root, override, ignore_collision, sep)
Merge(m, mfr, root, override, ignore_collision, sep) ==
  /\ \A k \in DictKeys(user_fcts[mfr]) :
        Len(merged_name(root, k, sep)) <= MaxKeyLen
  /\ LET r == merge(m, mfr, root, override, ignore_collision, sep)
     IN  /\ Len(r.uf) <= MaxEntries
         /\ user_fcts' = [user_fcts EXCEPT ![m] = r.uf]
         /\ last' = [NoCall EXCEPT !.op = "merge", !.m = m, !.mfr = mfr,
                       !.root = root, !.sep = sep, !.override = override,
                       !.ignore_collision = ignore_collision,
                       !.err = r.err, !.collisions = r.collisions]
  /\ UNCHANGED <<thrvars, builtin_fcts, default, next_id, brkvars, dfs>>

Next ==
  \/ \E m \in Mfrs, key \in RegisterKeys, tmpl \in Registrants,
        override \in BOOLEAN : Register(m, key, tmpl, override)
  \/ \E m \in Mfrs, mfr \in Mfrs, rs \in MergeRoots,
        override \in BOOLEAN, ignore_collision \in BOOLEAN :
        Merge(m, mfr, rs[1], override, ignore_collision, rs[2])

Spec == Init /\ [][Next]_vars

----------------------------------------------------------------------------
(* Registration and merge: properties of one call, stated over the step    *)
(* from the state before the call (unprimed) to the state after (primed);  *)
(* last' is the record of the call.                                        *)

\* Manufacturer.get in the state after the call
get_after(m, key) == get_in(builtin_fcts'[m], user_fcts'[m], key)
\* The unit the user partition of m holds under key, before and after
user_unit(m, key) == DictGet(user_fcts[m], key, NoFct)
user_unit_after(m, key) == DictGet(user_fcts'[m], key, NoFct)

IsReRegister ==
  /\ last'.op = "register"
  /\ last'.key \in DictKeys(user_fcts[last'.m])

\* C1, as stated: registering a key that the user partition already holds
\* raises KeyConflictError and keeps the old unit when override is false; when
\* override is true, get(key) afterwards returns the new unit, not the old one.
C1_AsStated ==
  [][IsReRegister =>
       IF ~last'.override
       THEN /\ last'.err = "KeyConflictError"
            /\ user_fcts' = user_fcts
       ELSE /\ get_after(last'.m, last'.key) = last'.fct
            /\ get_after(last'.m, last'.key) # user_unit(last'.m, last'.key)
    ]_vars

\* C1, amended: without override the call raises KeyConflictError and the
\* registry is unchanged; with override the new unit replaces the old one in
\* the user partition, get(key) returns it when key is outside the reserved
\* namespace, and for a reserved key get(key) still reads the builtin
\* partition, which register has not touched.
C1_RegisterConflictOrOverride ==
  [][IsReRegister =>
       IF ~last'.override
       THEN /\ last'.err = "KeyConflictError"
            /\ user_fcts' = user_fcts
            /\ next_id' = next_id
       ELSE /\ last'.err = "none"
            /\ user_unit_after(last'.m, last'.key) = last'.fct
            /\ last'.fct # user_unit(last'.m, last'.key)
            /\ DictKeys(user_fcts'[last'.m]) = DictKeys(user_fcts[last'.m])
            /\ IF is_reserved(last'.key)
               THEN get_after(last'.m, last'.key) = get(last'.m, last'.key)
               ELSE get_after(last'.m, last'.key) = last'.fct
    ]_vars

\* A state after an overriding registration: two Factory objects have been
\* constructed by register on the same plain key, and only the second is held.
C1_Witness ==
  /\ last.op = "register" /\ last.override /\ last.err = "none"
  /\ ~is_reserved(last.key)
  /\ last.fct.id = 2
  /\ user_fcts[last.m] = <<<<last.key, last.fct>>>>
  /\ \A m \in Mfrs \ {last.m} : user_fcts[m] = <<>>

IsMergeReturned == last'.op = "merge" /\ last'.err = "none"

\* Keys of mfr's user partition, and their names after the merge
MergedNames(mfr, root, sep) ==
  {merged_name(root, k, sep) : k \in DictKeys(user_fcts[mfr])}

C3_CollisionPolicy ==
  [][(last'.op = "merge" /\ issubclass(cls(last'.mfr), cls(last'.m))) =>
       LET A == last'.m
           B == last'.mfr
           name(k) == merged_name(last'.root, k, last'.sep)
           colliding == {k \in DictKeys(user_fcts[B]) :
                           name(k) \in DictKeys(user_fcts[A])}
       IN  IF last'.override
           THEN \A k \in colliding :
                  user_unit_after(A, name(k)) = user_unit(B, k)
           ELSE IF last'.ignore_collision
           THEN /\ \A k \in colliding :
                     user_unit_after(A, name(k)) = user_unit(A, name(k))
                /\ \A k \in DictKeys(user_fcts[B]) \ colliding :
                     user_unit_after(A, name(k)) = user_unit(B, k)
           ELSE colliding # {} =>
                  /\ last'.err = "KeyConflictError"
                  /\ last'.collisions = {name(k) : k \in colliding}
                  /\ user_fcts' = user_fcts
    ]_vars

----------------------------------------------------------------------------
(* Python values.  A value is a record whose field names tell its type;    *)
(* a str holds a sequence of tokens, a dict an insertion-ordered sequence  *)
(* of <<key, value>> pairs.                                                *)

IntV(n) == [int |-> n]
StrV(s) == [str |-> s]
NoneV == [none |-> TRUE]
ListV(s) == [list |-> s]
TupleV(s) == [tuple |-> s]
DictV(d) == [dict |-> d]
\* The object a registered callable returns: an instance of class c that
\* records the Factory that called and the keyword arguments it received.
Instance(c, id, kwargs) == [inst |-> c, by |-> id, kwargs |-> kwargs]

Is(v, tag) == tag \in DOMAIN v

isinstance(v, c) ==
  \/ c = "object"
  \/ Is(v, "int") /\ c = "int"
  \/ Is(v, "str") /\ c = "str"
  \/ Is(v, "list") /\ c = "list"
  \/ Is(v, "tuple") /\ c = "tuple"
  \/ Is(v, "dict") /\ c = "dict"
  \/ Is(v, "inst") /\ issubclass(v.inst, c)

\* F(v), with v evaluated once
Bind(v, F(_)) == CHOOSE r \in {F(x) : x \in {v}} : TRUE

\* isinstance(v, (tuple, list)), and the elements of such a value
IsSequence(v) == Is(v, "list") \/ Is(v, "tuple")
Elements(v) == IF Is(v, "list") THEN v.list ELSE v.tuple

\* What a generator hands to next(): its items, then StopIteration or the
\* exception its body raises at that point.
Iter(items, err) == [items |-> items, err |-> err]
StopIteration == "StopIteration"

\* An item of the exec-tree traversal: the pair (ts_or_cls, obj_or_spec)
Item(ty, obj) == [ty |-> ty, obj |-> obj]
ClassOf(c) == [cls |-> c]

----------------------------------------------------------------------------
(* ObjectSpec: afb/core/specs/obj_.py *)

KEY == StrV(<<"key">>)
INPUTS == StrV(<<"inputs">>)
VALUE == StrV(<<"value">>)

ObjectSpec(raw, key, inputs) == [objspec |-> key, inputs |-> inputs, raw |-> raw]

is_object_spec(obj) ==
  IF Is(obj, "objspec") THEN TRUE
  ELSE IF ~Is(obj, "dict") THEN FALSE
  ELSE LET l == Len(obj.dict)
       IN  IF l \notin {1, 2} THEN FALSE
           ELSE IF l = 1 THEN Is(obj.dict[1][1], "str")
           ELSE DictKeys(obj.dict) = {KEY, INPUTS}

is_direct_object(obj, c) ==
  IF obj = NoneV THEN TRUE
  ELSE IF ~isinstance(obj, c) THEN FALSE
  ELSE IF c # "dict" THEN TRUE
  ELSE ~is_object_spec(obj)

\* ObjectSpec.parse
ObjectSpec_parse(spec) ==
  IF Is(spec, "objspec") THEN [err |-> "none", val |-> spec]
  ELSE IF ~is_object_spec(spec)
  THEN [err |-> "InvalidFormatError", val |-> NoneV]
  ELSE IF Len(spec.dict) = 2
  THEN [err |-> "none",
        val |-> ObjectSpec(spec, DictGet(spec.dict, KEY, NoneV),
                           DictGet(spec.dict, INPUTS, NoneV))]
  ELSE [err |-> "none",
        val |-> ObjectSpec(spec, spec.dict[1][1], spec.dict[1][2])]

----------------------------------------------------------------------------
(* TypeSpec: afb/core/specs/type_.py *)

ClassTS(c) == [ts |-> "class", cls |-> c]
ListTS(e) == [ts |-> "list", elem |-> e]
DictTS(k, v) == [ts |-> "dict", ks |-> k, vs |-> v]
TupleTS(specs) == [ts |-> "tuple", specs |-> specs]

\* _ClassTypeSpec.parse_manifest
class_parse_manifest(ts, manifest) ==
  IF is_direct_object(manifest, ts.cls)
  THEN Iter(<<Item(ClassOf(ts.cls), manifest)>>, StopIteration)
  ELSE LET p == ObjectSpec_parse(manifest)
       IN  IF p.err # "none" THEN Iter(<<>>, p.err)
           ELSE Iter(<<Item(ClassOf(ts.cls), p.val)>>, StopIteration)

\* _ListTypeSpec.parse_manifest
list_parse_manifest(ts, manifest) ==
  IF ~IsSequence(manifest) THEN Iter(<<>>, "InvalidFormatError")
  ELSE LET xs == Elements(manifest)
       IN  Iter([i \in 1..Len(xs) |-> Item(ts.elem, xs[i])], StopIteration)

\* _DictTypeSpec.parse_manifest: a pair of the iterable is well-formed when
\* it is a 2-sequence or a dict with the keys "key" and "value"
IsPair(pair) ==
  \/ IsSequence(pair) /\ Len(Elements(pair)) = 2
  \/ Is(pair, "dict") /\ DictKeys(pair.dict) = {KEY, VALUE}
PairKey(pair) ==
  IF IsSequence(pair) THEN Elements(pair)[1] ELSE DictGet(pair.dict, KEY, NoneV)
PairValue(pair) ==
  IF IsSequence(pair) THEN Elements(pair)[2]
  ELSE DictGet(pair.dict, VALUE, NoneV)

dict_parse_manifest(ts, manifest) ==
  IF ~Is(manifest, "dict") /\ ~IsSequence(manifest)
  THEN Iter(<<>>, "InvalidFormatError")
  ELSE LET iterable ==
             IF Is(manifest, "dict")
             THEN [i \in 1..Len(manifest.dict) |-> TupleV(manifest.dict[i])]
             ELSE Elements(manifest)
           bad == {i \in 1..Len(iterable) : ~IsPair(iterable[i])}
           n == IF bad = {} THEN Len(iterable) ELSE Min(bad) - 1
       IN  Iter([j \in 1..(2 * n) |->
                    IF j % 2 = 1
                    THEN Item(ts.ks, PairKey(iterable[(j + 1) \div 2]))
                    ELSE Item(ts.vs, PairValue(iterable[j \div 2]))],
                IF bad = {} THEN StopIteration ELSE "InvalidFormatError")

\* _TupleTypeSpec.parse_manifest
tuple_parse_manifest(ts, manifest) ==
  IF ~IsSequence(manifest) \/ Len(Elements(manifest)) # Len(ts.specs)
  THEN Iter(<<>>, "InvalidFormatError")
  ELSE Iter([i \in 1..Len(ts.specs) |-> Item(ts.specs[i], Elements(manifest)[i])],
            StopIteration)

\* TypeSpec.parse_manifest
parse_manifest(ts, manifest) ==
  CASE ts.ts = "class" -> class_parse_manifest(ts, manifest)
    [] ts.ts = "list"  -> list_parse_manifest(ts, manifest)
    [] ts.ts = "dict"  -> dict_parse_manifest(ts, manifest)
    [] ts.ts = "tuple" -> tuple_parse_manifest(ts, manifest)

\* {inputs[i << 1]: inputs[(i << 1) + 1] for i in range(len(inputs) // 2)}
RECURSIVE zip_pairs(_, _, _)
zip_pairs(inputs, i, acc) ==
  IF 2 * i > Len(inputs) THEN acc
  ELSE zip_pairs(inputs, i + 1, DictSet(acc, inputs[2 * i - 1], inputs[2 * i]))

\* TypeSpec.pack of each kind, on the tuple of the children's results
class_pack(inputs) == [err |-> "none", val |-> inputs[1]]
list_pack(inputs) == [err |-> "none", val |-> TupleV(inputs)]
dict_pack(inputs) ==
  IF Len(inputs) % 2 = 1 THEN [err |-> "AssertionError", val |-> NoneV]
  ELSE [err |-> "none", val |-> DictV(zip_pairs(inputs, 1, <<>>))]
tuple_pack(inputs) == [err |-> "none", val |-> TupleV(inputs)]

pack(kind, inputs) ==
  CASE kind = "class" -> class_pack(inputs)
    [] kind = "list"  -> list_pack(inputs)
    [] kind = "dict"  -> dict_pack(inputs)
    [] kind = "tuple" -> tuple_pack(inputs)

----------------------------------------------------------------------------
(* Factory: afb/core/factory.py *)

\* A parameter of a signature: its name, its TypeSpec, whether it is required
Param(name, type, required) ==
  [name |-> StrV(<<name>>), type |-> type, required |-> required]

\* The registrants of the catalogue: for each, the signature it declares
\*   A "create":  A(u)           {"u": int}
\*   B "create":  B(a, z)        {"a": A, "z": int}, defaults {"z": 0}
\*   C "create":  C(xs, d, bs)   {"xs": [int], "d": {str: int}, "bs": [B]}
\*   A "pair":    A(p, q, r)     {"p": int, "q": int, "r": int},
\*                               defaults {"p": 1}
\*   A "use":     A(d)           {"d": dict}
\*   dict "mk":   mk(u)          {"u": int}, returns {"u": u}
\*   dict "direct": direct_dict(value)   {"value": object}
\* and the registrants whose callable builds something else than the class
\* it is registered for: None, an A1 (a subclass of A), a B
Signature(tmpl) ==
  CASE tmpl = "A_create" -> <<Param("u", ClassTS("int"), TRUE)>>
    [] tmpl = "B_create" -> <<Param("a", ClassTS("A"), TRUE),
                              Param("z", ClassTS("int"), FALSE)>>
    [] tmpl = "C_create" -> <<Param("xs", ListTS(ClassTS("int")), TRUE),
                              Param("d", DictTS(ClassTS("str"), ClassTS("int")),
                                    FALSE),
                              Param("bs", ListTS(ClassTS("B")), FALSE)>>
    [] tmpl = "A_pair"   -> <<Param("p", ClassTS("int"), TRUE),
                              Param("q", ClassTS("int"), TRUE),
                              Param("r", ClassTS("int"), FALSE)>>
    [] tmpl \in {"return_None", "return_A1", "return_B"} ->
                            <<Param("u", ClassTS("int"), TRUE)>>
    [] tmpl = "A_dict"   -> <<Param("d", ClassTS("dict"), TRUE)>>
    [] tmpl = "D_mk"     -> <<Param("u", ClassTS("int"), TRUE)>>
    [] tmpl = "direct"   -> <<Param("value", ClassTS("object"), TRUE)>>
    [] OTHER -> <<>>

\* ... and the defaults it is registered with
Defaults(tmpl) ==
  CASE tmpl = "B_create" -> <<<<StrV(<<"z">>), IntV(0)>>>>
    [] tmpl = "A_pair"   -> <<<<StrV(<<"p">>), IntV(1)>>>>
    [] OTHER -> <<>>

SigNames(fct) ==
  {Signature(fct.tmpl)[i].name : i \in 1..Len(Signature(fct.tmpl))}
SigRequired(fct) ==
  {Signature(fct.tmpl)[i].name :
     i \in {j \in 1..Len(Signature(fct.tmpl)) : Signature(fct.tmpl)[j].required}}
SigType(fct, name) ==
  LET sig == Signature(fct.tmpl)
  IN  sig[CHOOSE i \in 1..Len(sig) : sig[i].name = name].type

\* An update that would keep the values merged already holds
RECURSIVE dict_update_new_keys(_, _)
dict_update_new_keys(merged, kwargs) ==
  IF kwargs = <<>> THEN merged
  ELSE dict_update_new_keys(DictSetDefault(merged, kwargs[1][1], kwargs[1][2]),
                            Tail(kwargs))
\* merged.update(kwargs)
RECURSIVE dict_update(_, _)
dict_update(merged, kwargs) ==
  IF kwargs = <<>> THEN merged
  ELSE dict_update(DictSet(merged, kwargs[1][1], kwargs[1][2]), Tail(kwargs))

\* A validity check that lets every argument through
inv_args_none(fct, merged_names) == {}
\* merged_names - self._sig.names
inv_args(fct, merged_names) == merged_names \ SigNames(fct)
\* self._sig.required - merged_names
missing_args(fct, merged_names) == SigRequired(fct) \ merged_names

\* Factory.merge_inputs: the merged arguments, or an ArgumentError whose
\* message says what is wrong ("Invalid arguments", "Missing required
\* arguments") and lists the names
merge_inputs(fct, kwargs) ==
  LET merged == dict_update(Defaults(fct.tmpl), kwargs)
      inv == inv_args(fct, DictKeys(merged))
      missing == missing_args(fct, DictKeys(merged))
  IN  IF inv # {}
      THEN [err |-> "ArgumentError", merged |-> merged,
            what |-> "Invalid", listed |-> inv]
      ELSE IF missing # {}
      THEN [err |-> "ArgumentError", merged |-> merged,
            what |-> "Missing", listed |-> missing]
      ELSE [err |-> "none", merged |-> merged, what |-> "none", listed |-> {}]

\* Factory.parse_inputs: a generator of (None, k), (type of k, v) pairs
parse_inputs(fct, inputs) ==
  IF inputs # NoneV /\ ~Is(inputs, "dict") THEN Iter(<<>>, "AssertionError")
  ELSE IF inputs # NoneV /\ \E k \in DictKeys(inputs.dict) : ~Is(k, "str")
  THEN Iter(<<>>, "TypeError")
  ELSE LET m == merge_inputs(fct, IF inputs = NoneV THEN <<>> ELSE inputs.dict)
       IN  IF m.err # "none" THEN Iter(<<>>, m.err)
           ELSE Iter([j \in 1..(2 * Len(m.merged)) |->
                        IF j % 2 = 1
                        THEN Item(NoneV, m.merged[(j + 1) \div 2][1])
                        ELSE Item(SigType(fct, m.merged[j \div 2][1]),
                                  m.merged[j \div 2][2])],
                     StopIteration)

\* fn_util.varargs_to_kwargs
varargs_to_kwargs(args) ==
  IF Len(args) % 2 = 1 THEN [err |-> "ArgumentError", kwargs |-> <<>>]
  ELSE [err |-> "none", kwargs |-> zip_pairs(args, 1, <<>>)]

\* The registered callable: fct._fn(**kwargs).  The callables of the
\* catalogue build an object of the class they are registered for.
fn(fct, kwargs) ==
  CASE fct.tmpl = "return_None" -> NoneV
    [] fct.tmpl = "return_A1"   -> Instance("A1", fct.id, kwargs)
    [] fct.tmpl = "return_B"    -> Instance("B", fct.id, kwargs)
    [] fct.tmpl = "D_mk"        -> DictV(kwargs)
    [] fct.tmpl = "direct"      -> DictGet(kwargs, VALUE, NoneV)
    [] OTHER                    -> Instance(fct.cls, fct.id, kwargs)
\* ... and the exception the callable raises: direct_dict refuses a value
\* that is not a dict
fn_raises(fct, kwargs) ==
  IF fct.tmpl = "direct" /\ ~Is(DictGet(kwargs, VALUE, NoneV), "dict")
  THEN "TypeError" ELSE "none"

\* Factory.__call__: the call of the callable, then the check of its result
Factory_call(fct, kwargs) ==
  LET instance == fn(fct, kwargs)
      call == [fct |-> fct, kwargs |-> kwargs]
  IN  IF fn_raises(fct, kwargs) # "none"
      THEN [err |-> fn_raises(fct, kwargs), val |-> NoneV, calls |-> <<call>>]
      ELSE IF ~isinstance(instance, fct.cls)
      THEN [err |-> "TypeError", val |-> NoneV, calls |-> <<call>>]
      ELSE [err |-> "none", val |-> instance, calls |-> <<call>>]

\* Factory.call_as_fuse_fn
call_as_fuse_fn(fct, args) ==
  LET kw == varargs_to_kwargs(args)
  IN  IF kw.err # "none" THEN [err |-> kw.err, val |-> NoneV, calls |-> <<>>]
      ELSE Factory_call(fct, kw.kwargs)

----------------------------------------------------------------------------
(* Fuse functions and FnCall: afb/utils/fn_util.py *)

\* The functions a PostorderDFSNode fuses with
SeedFn == [fn |-> "seed"]
PackFn(kind) == [fn |-> "pack", kind |-> kind]
FactoryFn(fct) == [fn |-> "call_as_fuse_fn", fct |-> fct]
\* A stub that would be the function itself: fusing a node of the tree
\* under construction calls it
stub_eager(f) == f
\* FnCall.stub(f): lambda *args: FnCall(f, *args)
Stub(f) == [fn |-> "stub", of |-> f]
\* FnCall(f, *args): the deferred call of f, with its arguments as children
FnCall(f, args) == [fncall |-> f, args |-> args]

\* f(*args) for a fuse function f: its result, the exception it raises and
\* the calls of registered callables it makes
Apply(f, args) ==
  CASE f.fn = "seed" -> [err |-> "none", val |-> args[1], calls |-> <<>>]
    [] f.fn = "stub" -> [err |-> "none", val |-> FnCall(f.of, args), calls |-> <<>>]
    [] f.fn = "pack" -> [err |-> pack(f.kind, args).err,
                         val |-> pack(f.kind, args).val, calls |-> <<>>]
    [] f.fn = "call_as_fuse_fn" -> call_as_fuse_fn(f.fct, args)

----------------------------------------------------------------------------
(* Broker: afb/core/broker.py.  brk is a record of the variables a Broker   *)
(* call reads and writes: mfrs (broker_mfrs), state (brokers),             *)
(* ref (broker_ref), bind (bind_attr).                                     *)

\* self._broker_ref(): the Broker of the weak reference, or None once there
\* is no reference or the Broker has been collected
_broker_ref(brk, self) ==
  IF brk.ref[self] # NoBroker /\ brk.state[brk.ref[self]] # "collected"
  THEN brk.ref[self] ELSE NoBroker
\* A Manufacturer whose back-reference would always find the Broker
_broker_always(brk, self) == TheBroker
\* Manufacturer._broker
_broker(brk, self) == _broker_ref(brk, self)

\* Broker._register under the lock, up to the call of the Manufacturer's
\* _bind: the class check, the pop of the incumbent, the lookup of mfr._bind
register_pop(self, brk, mfr, override) ==
  LET c == cls(mfr)
      old == brk.mfrs[self][c]
  IN  IF old # NoMfr /\ ~override
      THEN [err |-> "KeyConflictError", brk |-> brk]
      ELSE LET \* self._mfrs.pop(cls)._bind = None
               popped == IF old = NoMfr THEN brk
                         ELSE [brk EXCEPT !.mfrs[self][c] = NoMfr,
                                          !.bind[old] = "None"]
           IN  IF popped.bind[mfr] = "None"
               THEN \* mfr._bind(self): the attribute holds None
                    [err |-> "TypeError", brk |-> popped]
               ELSE [err |-> "none", brk |-> popped]

\* Manufacturer._bind(broker) under the Manufacturer's lock, and then
\* self._mfrs[cls] = mfr
bind_store(self, popped, mfr) ==
  IF _broker_ref(popped, mfr) # NoBroker
  THEN \* Manufacturer._bind: _broker._detach(self._cls), where
       \* _detach is what the bare @dc.restricted returned
       [err |-> "TypeError", brk |-> popped]
  ELSE [err |-> "none",
        brk |-> [popped EXCEPT !.ref[mfr] = self,
                               !.mfrs[self][cls(mfr)] = mfr]]

\* Broker._register, on the Broker self
Broker_register(self, brk, mfr, override) ==
  Bind(register_pop(self, brk, mfr, override),
       LAMBDA p : IF p.err # "none" THEN p ELSE bind_store(self, p.brk, mfr))

\* The Manufacturer that Broker.get_or_create constructs for class c.  Only
\* the Broker holds it, so once popped from _mfrs the object is gone and the
\* name stands for the next one constructed.
AutoMfr(c) ==
  CASE c = "A" -> "autoA" [] c = "B" -> "autoB" [] c = "C" -> "autoC"
    [] c = "dict" -> "autoD"
\* ... and the one the Broker self constructs
AutoMfrOf(self, c) ==
  IF self = TheBroker THEN AutoMfr(c)
  ELSE CASE c = "A" -> "auto2A" [] c = "B" -> "auto2B" [] c = "C" -> "auto2C"

\* Manufacturer(cls): a new object, unbound, with its method _bind
Constructed(brk, m) ==
  [brk EXCEPT !.ref[m] = NoBroker, !.bind[m] = "method"]

\* Broker.get_or_create, on the Broker self
get_or_create(self, brk, c) ==
  IF brk.mfrs[self][c] # NoMfr THEN [mfr |-> brk.mfrs[self][c], brk |-> brk]
  ELSE LET r == Broker_register(self, Constructed(brk, AutoMfrOf(self, c)),
                                AutoMfrOf(self, c), FALSE)
       IN  [mfr |-> r.brk.mfrs[self][c], brk |-> r.brk]

----------------------------------------------------------------------------
(* PostorderDFS: afb/utils/algorithms.py *)

\* PostorderDFSNode(fuse_fn, items)
PostorderDFSNode(fuse, it) ==
  [fuse |-> fuse, items |-> it.items, err |-> it.err, fuse_items |-> <<>>]
NoNode == [fuse |-> SeedFn, items |-> <<>>, err |-> StopIteration,
           fuse_items |-> <<>>]

\* ProcResult: ItemResult(item), NodeResult(fuse_fn, items), or an exception;
\* with the state of the Broker after the call of proc_fn
ItemResult(item, brk) ==
  [err |-> "none", has_item |-> TRUE, item |-> item, has_node |-> FALSE,
   node |-> NoNode, brk |-> brk]
NodeResult(fuse, it, brk) ==
  [err |-> "none", has_item |-> FALSE, item |-> NoneV, has_node |-> TRUE,
   node |-> PostorderDFSNode(fuse, it), brk |-> brk]
Raises(e, brk) ==
  [err |-> e, has_item |-> FALSE, item |-> NoneV, has_node |-> FALSE,
   node |-> NoNode, brk |-> brk]

\* Manufacturer._create_exec_tree_proc
_create_exec_tree_proc(self, brk, item) ==
  IF item.ty = NoneV THEN ItemResult(item.obj, brk)
  ELSE IF Is(item.ty, "ts")
  THEN NodeResult(Stub(PackFn(item.ty.ts)), parse_manifest(item.ty, item.obj), brk)
  ELSE LET c == item.ty.cls
       IN  IF item.obj = NoneV THEN ItemResult(item.obj, brk)
           ELSE IF is_direct_object(item.obj, c) THEN ItemResult(item.obj, brk)
           ELSE IF _broker(brk, self) = NoBroker THEN Raises("GraphError", brk)
           ELSE IF ~Is(item.obj.objspec, "str") THEN Raises("AttributeError", brk)
           ELSE LET g == get_or_create(_broker(brk, self), brk, c)
                    fct == get(g.mfr, item.obj.objspec.str)
                IN  IF fct = NoFct
                    THEN IF c = "dict" THEN ItemResult(item.obj.raw, g.brk)
                         ELSE Raises("KeyError", g.brk)
                    ELSE NodeResult(Stub(FactoryFn(fct)),
                                    parse_inputs(fct, item.obj.inputs), g.brk)

\* A proc that would hand every item back as it is, FnCalls unevaluated
_run_exec_tree_as_item(brk, item) == ItemResult(item, brk)
\* _run_exec_tree_proc: a FnCall is fused by calling it on the results of
\* its arguments, which applies its function to them
_run_exec_tree_proc(brk, item) ==
  IF Is(item, "fncall")
  THEN NodeResult(item.fncall, Iter(item.args, StopIteration), brk)
  ELSE ItemResult(item, brk)

\* self._proc_fn(item) of a PostorderDFS built on p
proc_fn(p, brk, item) ==
  IF p.name = "create" THEN _create_exec_tree_proc(p.self, brk, item)
  ELSE _run_exec_tree_proc(brk, item)

\* A run of PostorderDFS.__call__(seed): the stack (top last), the last fused
\* result, the exception that ended it, the calls of registered callables made
\* and the state of the Broker
DFSStart(seed, brk) ==
  [stack |-> <<PostorderDFSNode(SeedFn, Iter(<<seed>>, StopIteration))>>,
   result |-> NoneV, err |-> "none", calls |-> <<>>, brk |-> brk]

\* A push that would leave the frame on the stack twice
PushTwice(stack, node) == Append(Append(stack, node), node)
\* stack.append(proc_result.node)
Push(stack, node) == Append(stack, node)

\* An add that would put the item before the results already collected
AddToTopFirst(stack, item) ==
  [stack EXCEPT ![Len(stack)].fuse_items = <<item>> \o @]
\* stack[-1].add(item)
AddToTop(stack, item) ==
  [stack EXCEPT ![Len(stack)].fuse_items = Append(@, item)]

\* One iteration of the while loop of PostorderDFS.__call__
DFSStep(p, st) ==
  LET n == Len(st.stack)
      node == st.stack[n]
  IN  IF node.items = <<>>
      THEN IF node.err # StopIteration
           THEN [st EXCEPT !.err = node.err]
           ELSE LET f == Apply(node.fuse, node.fuse_items)
                    rest == SubSeq(st.stack, 1, n - 1)
                IN  IF f.err # "none"
                    THEN [st EXCEPT !.err = f.err, !.calls = @ \o f.calls]
                    ELSE [st EXCEPT
                            !.stack = IF rest = <<>> THEN rest
                                      ELSE AddToTop(rest, f.val),
                            !.result = f.val,
                            !.calls = @ \o f.calls]
      ELSE LET pulled == [st.stack EXCEPT ![n].items = Tail(@)]
               r == proc_fn(p, st.brk, Head(node.items))
           IN  IF r.err # "none"
               THEN [st EXCEPT !.stack = pulled, !.err = r.err, !.brk = r.brk]
               ELSE LET added == IF r.has_item THEN AddToTop(pulled, r.item)
                                 ELSE pulled
                    IN  [st EXCEPT
                           !.stack = IF r.has_node THEN Push(added, r.node)
                                     ELSE added,
                           !.brk = r.brk]

DFSDone(st) == st.stack = <<>> \/ st.err # "none"

\* PostorderDFS.__call__: the loop, run to its end
RECURSIVE DFSRun(_, _)
DFSRun(p, st) ==
  IF DFSDone(st) THEN st
  ELSE Bind(DFSStep(p, st), LAMBDA next : DFSRun(p, next))

----------------------------------------------------------------------------
(* Manufacturer.make and Broker.make *)

\* validate.is_kwargs
is_kwargs(obj) ==
  \/ obj = NoneV
  \/ Is(obj, "dict") /\ \A k \in DictKeys(obj.dict) : Is(k, "str")

Failed(e, brk) == [err |-> e, result |-> NoneV, calls |-> <<>>, brk |-> brk]

\* Manufacturer._create_exec_tree
_create_exec_tree(self, key, inputs, brk) ==
  DFSRun([name |-> "create", self |-> self],
         DFSStart(Item(ClassTS(cls(self)), DictV(<<<<StrV(key), inputs>>>>)),
                  brk))

\* A _make that would keep no reference to the Broker
held_nothing(brk, self) == NoBroker
\* Manufacturer._make: `_broker = self._broker`, the strong reference to the
\* Broker that the call keeps until it returns
held_broker(brk, self) == _broker(brk, self)

\* Manufacturer._make
_make(self, key, inputs, brk) ==
  IF get(self, key) = NoFct THEN Failed("KeyError", brk)
  ELSE IF ~is_kwargs(inputs) THEN Failed("TypeError", brk)
  ELSE Bind(_create_exec_tree(self, key, inputs, brk),
            LAMBDA root :
              IF root.err # "none"
              THEN [Failed(root.err, root.brk) EXCEPT !.calls = root.calls]
              ELSE Bind(DFSRun([name |-> "run"],
                               DFSStart(root.result, root.brk)),
                        LAMBDA run :
                          [err |-> run.err,
                           result |-> IF run.err = "none" THEN run.result
                                      ELSE NoneV,
                           calls |-> root.calls \o run.calls,
                           brk |-> run.brk]))

\* Manufacturer.make
make(self, key, inputs, brk) ==
  LET k == IF key = None THEN default[self] ELSE key
  IN  IF k = None THEN Failed("ValueError", brk)
      ELSE _make(self, k, inputs, brk)

\* Broker.make
Broker_make(c, key, inputs, brk) ==
  LET g == get_or_create(TheBroker, brk, c)
  IN  make(g.mfr, key, inputs, g.brk)

----------------------------------------------------------------------------
(* The catalogue of the make runs: a Manufacturer for each of the classes  *)
(* A, B and C with one factory "create", as in the example of the          *)
(* Manufacturer docstring and the catalogue of the tests.                  *)

\* Longest list in a manifest
MaxLen == 2

MakeClasses == {"A", "B", "C"}
MakeMfrs == {"mA", "mB", "mC"}
AutoMfrs == {AutoMfr(c) : c \in MakeClasses}
CreateKey == <<"create">>
CatalogueFactory(m) ==
  CASE m = "mA" -> NewFactory(1, "A", "A_create")
    [] m = "mB" -> NewFactory(2, "B", "B_create")
    [] m = "mC" -> NewFactory(3, "C", "C_create")

\* Sequences over S of length at most n
SeqsUpTo(S, n) == UNION {[1..k -> S] : k \in 0..n}

\* str and dict literals of the manifests
S(token) == StrV(<<token>>)
D1(k, v) == DictV(<<<<S(k), v>>>>)
D2(k1, v1, k2, v2) == DictV(<<<<S(k1), v1>>, <<S(k2), v2>>>>)

\* An A object built by the caller
AObj == Instance("A", 0, <<>>)
\* Manifests of a parameter of class A: an instance, None, an object spec in
\* either form, a spec of an unknown key, a value of another type
ASpecs == {D1("create", D1("u", IntV(1))),
           D2("key", S("create"), "inputs", D1("u", IntV(2)))}
AManifests == {AObj, NoneV, D1("missing", NoneV), IntV(7)} \cup ASpecs

AInputs == {D1("u", IntV(1)), D1("u", IntV(2)), D1("u", S("s")), DictV(<<>>),
            NoneV, IntV(1)}
BInputs ==
  {D1("a", am) : am \in AManifests}
    \cup {D2("a", am, "z", IntV(5)) : am \in {AObj} \cup ASpecs}
    \cup {D2("z", IntV(5), "a", AObj), D2("a", AObj, "w", IntV(1)),
          DictV(<<>>), NoneV}
\* Manifests of a parameter of class B
BManifests == {D1("create", D1("a", AObj)),
               D1("create", D1("a", D1("create", D1("u", IntV(1)))))}
XsManifests ==
  {ListV(xs) : xs \in SeqsUpTo({IntV(1), IntV(2)}, MaxLen)}
    \cup {TupleV(<<IntV(1), IntV(2)>>), IntV(3), ListV(<<S("s")>>)}
DManifests ==
  {D2("a", IntV(1), "b", IntV(2)),
   ListV(<<D2("key", S("a"), "value", IntV(1)),
           D2("key", S("b"), "value", IntV(2))>>),
   ListV(<<TupleV(<<S("b"), IntV(2)>>), ListV(<<S("a"), IntV(1)>>)>>),
   ListV(<<D2("key", S("a"), "value", IntV(1)), D1("key", S("b"))>>),
   IntV(4)}
\* Manifests of a parameter declared [B]: no, one or two object specs
BsManifests ==
  {ListV(<<>>)} \cup {ListV(<<b>>) : b \in BManifests}
    \cup {ListV(<<b1, b2>>) : b1 \in BManifests, b2 \in BManifests}
\* Inputs whose last node fails after an object spec that is valid: a
\* manifest of the wrong form, a key that is not registered, an argument that
\* is not declared
LateFailures ==
  {D2("bs", ListV(<<D1("create", D1("a", AObj))>>), "xs", IntV(3)),
   D2("bs", ListV(<<D1("create", D1("a", AObj)), D1("missing", NoneV)>>),
      "xs", ListV(<<>>)),
   D2("bs", ListV(<<D1("create", D1("a", AObj)),
                    D1("create", D1("zz", IntV(1)))>>),
      "xs", ListV(<<>>))}
CInputs ==
  {D1("xs", xs) : xs \in XsManifests}
    \cup {D2("xs", ListV(<<IntV(1)>>), "d", d) : d \in DManifests}
    \cup {D2("xs", ListV(<<>>), "bs", bs) : bs \in BsManifests}
    \cup LateFailures

InputsOf(c) ==
  CASE c = "A" -> AInputs [] c = "B" -> BInputs [] c = "C" -> CInputs

\* (key, inputs) of the make calls on class c
MakeCalls(c) ==
  {<<CreateKey, i>> : i \in InputsOf(c)}
    \cup {<<<<"missing">>, NoneV>>, <<None, NoneV>>}

TheBrk ==
  [mfrs |-> broker_mfrs, state |-> brokers, ref |-> broker_ref,
   bind |-> bind_attr]

----------------------------------------------------------------------------
(* The make runs *)

\* The classes of the Manufacturers the Broker is created with; the
\* Manufacturer of B exists, a Broker.register is to bind it
Registered == {"A", "C"}

InitMake ==
  /\ user_fcts = [m \in MakeMfrs \cup AutoMfrs |->
                    IF m \in MakeMfrs
                    THEN <<<<CreateKey, CatalogueFactory(m)>>>> ELSE <<>>]
  /\ builtin_fcts = [m \in MakeMfrs \cup AutoMfrs |-> _install_builtins(m)]
  /\ default = [m \in MakeMfrs \cup AutoMfrs |-> None]
  /\ next_id = 4
  /\ broker_mfrs = [b \in Brokers |-> [c \in MakeClasses |->
                      IF b = TheBroker /\ c \in Registered
                      THEN CHOOSE m \in MakeMfrs : cls(m) = c ELSE NoMfr]]
  /\ brokers = [b \in Brokers |-> "held"]
  /\ broker_ref = [m \in MakeMfrs \cup AutoMfrs |->
                     IF m \in MakeMfrs /\ cls(m) \in Registered
                     THEN TheBroker ELSE NoBroker]
  /\ bind_attr = [m \in MakeMfrs \cup AutoMfrs |-> "method"]
  /\ dfs = Idle
  /\ threads = NoThreads
  /\ locks = NoLocks
  /\ last = NoCall

SetBrk(brk) ==
  /\ broker_mfrs' = brk.mfrs
  /\ brokers' = brk.state
  /\ broker_ref' = brk.ref
  /\ bind_attr' = brk.bind

\* Broker.register(mfr, override)
BrokerRegister(mfr, override) ==
  /\ \E r \in {Broker_register(TheBroker, TheBrk, mfr, override)} :
         /\ SetBrk(r.brk)
         /\ last' = [NoCall EXCEPT !.op = "Broker.register", !.m = mfr,
                       !.override = override, !.err = r.err]
  /\ UNCHANGED <<thrvars, regvars, dfs>>

\* Manufacturer.make(key, inputs) on the Manufacturer m
Make(m, key, inputs) ==
  /\ \E r \in {make(m, key, inputs, TheBrk)} :
         /\ SetBrk(r.brk)
         /\ last' = [NoCall EXCEPT !.op = "make", !.m = m, !.key = key,
                       !.inputs = inputs, !.err = r.err, !.result = r.result,
                       !.calls = r.calls]
  /\ UNCHANGED <<thrvars, regvars, dfs>>

\* Broker.make(cls, key, inputs)
BrokerMake(c, key, inputs) ==
  /\ \E r \in {Broker_make(c, key, inputs, TheBrk)} :
         /\ SetBrk(r.brk)
         /\ last' = [NoCall EXCEPT !.op = "Broker.make",
                       !.m = get_or_create(TheBroker, TheBrk, c).mfr, !.key = key,
                       !.inputs = inputs, !.err = r.err, !.result = r.result,
                       !.calls = r.calls]
  /\ UNCHANGED <<thrvars, regvars, dfs>>

NextMake ==
  \/ \E m \in MakeMfrs : BrokerRegister(m, FALSE)
  \/ \E m \in MakeMfrs : \E c \in MakeCalls(cls(m)) : Make(m, c[1], c[2])
  \/ \E k \in MakeClasses : \E i \in InputsOf(k) : BrokerMake(k, CreateKey, i)

SpecMake == InitMake /\ [][NextMake]_vars

----------------------------------------------------------------------------
(* make: properties of one call, over the step of the call *)

IsMakeCall == last'.op \in {"make", "Broker.make"}
\* The unit the called Manufacturer holds under the key of the call
CalledUnit == get(last'.m, last'.key)
\* inputs as keyword arguments: None stands for no arguments
Kwargs(inputs) == IF inputs = NoneV THEN <<>> ELSE inputs.dict

\* v is a value of the type ts already: an instance (or None) for a class,
\* a sequence or mapping of such values for a container
RECURSIVE IsRealized(_, _)
IsRealized(ts, v) ==
  CASE ts.ts = "class" -> v = NoneV \/ isinstance(v, ts.cls)
    [] ts.ts = "list"  ->
         /\ Is(v, "list")
         /\ \A i \in 1..Len(v.list) : IsRealized(ts.elem, v.list[i])
    [] ts.ts = "dict"  ->
         /\ Is(v, "dict")
         /\ \A i \in 1..Len(v.dict) :
               /\ IsRealized(ts.ks, v.dict[i][1])
               /\ IsRealized(ts.vs, v.dict[i][2])
    [] ts.ts = "tuple" ->
         /\ Is(v, "tuple") /\ Len(v.tuple) = Len(ts.specs)
         /\ \A i \in 1..Len(v.tuple) : IsRealized(ts.specs[i], v.tuple[i])

\* The call names a registered unit and gives it a well-formed argument map
\* whose values are all realized
IsRealizedCall ==
  /\ IsMakeCall
  /\ last'.key # None
  /\ CalledUnit # NoFct
  /\ is_kwargs(last'.inputs)
  /\ DictKeys(Kwargs(last'.inputs)) \subseteq SigNames(CalledUnit)
  /\ SigRequired(CalledUnit) \subseteq
       DictKeys(Kwargs(last'.inputs)) \cup DictKeys(Defaults(CalledUnit.tmpl))
  /\ \A i \in 1..Len(Kwargs(last'.inputs)) :
        IsRealized(SigType(CalledUnit, Kwargs(last'.inputs)[i][1]),
                   Kwargs(last'.inputs)[i][2])

\* The argument map the claim expects: the defaults overlaid by the inputs
Overlaid(fct, inputs) ==
  [k \in DictKeys(Defaults(fct.tmpl)) \cup DictKeys(Kwargs(inputs)) |->
     IF k \in DictKeys(Kwargs(inputs)) THEN DictGet(Kwargs(inputs), k, NoneV)
     ELSE DictGet(Defaults(fct.tmpl), k, NoneV)]
\* An ordered dict as a mapping
AsMap(d) == [k \in DictKeys(d) |-> DictGet(d, k, NoneV)]

\* C4: a make whose inputs are all realized values invokes the registered
\* callable exactly once, with the declared defaults overlaid by the inputs,
\* each value unchanged, and returns the callable's result.
C4_RealizedInputs ==
  [][IsRealizedCall =>
       /\ last'.err = "none"
       /\ Len(last'.calls) = 1
       /\ last'.calls[1].fct = CalledUnit
       /\ AsMap(last'.calls[1].kwargs) = Overlaid(CalledUnit, last'.inputs)
       /\ last'.result = fn(CalledUnit, last'.calls[1].kwargs)
    ]_vars

\* The call reaches a registered unit of a Manufacturer that is bound to the
\* Broker when the call returns, with a well-formed argument map
IsBoundCall ==
  /\ IsMakeCall
  /\ broker_ref'[last'.m] = TheBroker
  /\ last'.key # None
  /\ CalledUnit # NoFct
  /\ is_kwargs(last'.inputs)
  /\ DictKeys(Kwargs(last'.inputs)) \subseteq SigNames(CalledUnit)
  /\ SigRequired(CalledUnit) \subseteq
       DictKeys(Kwargs(last'.inputs)) \cup DictKeys(Defaults(CalledUnit.tmpl))

\* The i-th input of the call: its name, its manifest, its declared type
InName(i) == Kwargs(last'.inputs)[i][1]
InValue(i) == Kwargs(last'.inputs)[i][2]
InType(i) == SigType(CalledUnit, InName(i))
Ins == 1..Len(Kwargs(last'.inputs))

\* The inputs of the call that are object specs of a class-typed parameter
SpecParams ==
  {i \in Ins : /\ InType(i).ts = "class"
               /\ ~is_direct_object(InValue(i), InType(i).cls)
               /\ is_object_spec(InValue(i))}
\* The unit an object spec names, in the Broker's Manufacturer of the class
NestedUnit(i) ==
  LET m == broker_mfrs[TheBroker][InType(i).cls]
      k == ObjectSpec_parse(InValue(i)).val.objspec
  IN  IF m = NoMfr \/ ~Is(k, "str") THEN NoFct ELSE get(m, k.str)
NestedInputs(i) == ObjectSpec_parse(InValue(i)).val.inputs
\* The object spec names a registered unit and gives it realized inputs
IsNestedRealized(i) ==
  LET u == NestedUnit(i)
      kw == Kwargs(NestedInputs(i))
  IN  /\ u # NoFct
      /\ is_kwargs(NestedInputs(i))
      /\ DictKeys(kw) \subseteq SigNames(u)
      /\ SigRequired(u) \subseteq DictKeys(kw) \cup DictKeys(Defaults(u.tmpl))
      /\ \A j \in 1..Len(kw) : IsRealized(SigType(u, kw[j][1]), kw[j][2])

IsObjectSpecCall ==
  /\ IsBoundCall
  /\ SpecParams # {}
  /\ \A i \in Ins :
        /\ InType(i).ts = "class"
        /\ IF i \in SpecParams THEN IsNestedRealized(i)
           ELSE IsRealized(InType(i), InValue(i))

\* C5: on a bound Manufacturer, a class-typed parameter given as an object
\* spec {k: inputs} (either form) is built by unit k of the Broker's
\* Manufacturer for that class from the realized inputs and the instance is
\* passed as the argument; an explicit value replaces the default.
C5_ObjectSpecParameter ==
  [][IsObjectSpecCall =>
       LET n == Len(last'.calls)
           top == last'.calls[n]
       IN  /\ last'.err = "none"
           /\ n = Cardinality(SpecParams) + 1
           /\ top.fct = CalledUnit
           /\ \A i \in SpecParams :
                 \E j \in 1..(n - 1) :
                    /\ last'.calls[j].fct = NestedUnit(i)
                    /\ AsMap(last'.calls[j].kwargs)
                         = Overlaid(NestedUnit(i), NestedInputs(i))
                    /\ DictGet(top.kwargs, InName(i), NoneV)
                         = fn(NestedUnit(i), last'.calls[j].kwargs)
           /\ \A i \in Ins \ SpecParams :
                 DictGet(top.kwargs, InName(i), NoneV) = InValue(i)
           /\ \A i \in 1..Len(Defaults(CalledUnit.tmpl)) :
                 LET dk == Defaults(CalledUnit.tmpl)[i][1]
                 IN  dk \notin DictKeys(Kwargs(last'.inputs)) =>
                       DictGet(top.kwargs, dk, NoneV)
                         = Defaults(CalledUnit.tmpl)[i][2]
           /\ last'.result = fn(CalledUnit, top.kwargs)
    ]_vars
C5_Witness ==
  /\ last.op = "make" /\ last.m = "mB" /\ last.err = "none"
  /\ last.inputs = D2("a", D2("key", S("create"), "inputs", D1("u", IntV(2))),
                      "z", IntV(5))
  /\ Len(last.calls) = 2
  /\ last.calls[1].fct = CatalogueFactory("mA")
  /\ DictGet(last.calls[2].kwargs, S("z"), NoneV) = IntV(5)
  /\ DictGet(last.calls[2].kwargs, S("a"), NoneV)
       = Instance("A", 1, D1("u", IntV(2)).dict)

\* A sequence manifest of realized elements, for a parameter declared [T]
IsSequenceManifest(i) ==
  /\ InType(i).ts = "list"
  /\ IsSequence(InValue(i))
  /\ \A j \in 1..Len(Elements(InValue(i))) :
        IsRealized(InType(i).elem, Elements(InValue(i))[j])
\* The list form [{"key": k, "value": v}, ...] of realized keys and values,
\* for a parameter declared {K: V}
IsListForm(i) ==
  /\ InType(i).ts = "dict"
  /\ Is(InValue(i), "list")
  /\ \A j \in 1..Len(InValue(i).list) :
        LET p == InValue(i).list[j]
        IN  /\ Is(p, "dict") /\ Len(p.dict) = 2
            /\ DictKeys(p.dict) = {KEY, VALUE}
            /\ IsRealized(InType(i).ks, DictGet(p.dict, KEY, NoneV))
            /\ IsRealized(InType(i).vs, DictGet(p.dict, VALUE, NoneV))
ListFormMapping(v) ==
  DictV([j \in 1..Len(v.list) |->
           <<DictGet(v.list[j].dict, KEY, NoneV),
             DictGet(v.list[j].dict, VALUE, NoneV)>>])

\* C6: a parameter declared [T] given a sequence manifest receives the list
\* of the realized elements in manifest order; a parameter declared {K: V}
\* given the list form receives the mapping of each k_i to its v_i.
C6_Containers ==
  [][(/\ IsBoundCall
      /\ \A i \in Ins : IsSequenceManifest(i) \/ IsListForm(i))
     =>
       LET top == last'.calls[Len(last'.calls)]
       IN  /\ last'.err = "none"
           /\ Len(last'.calls) = 1
           /\ \A i \in Ins :
                 DictGet(top.kwargs, InName(i), NoneV)
                   = IF IsSequenceManifest(i)
                     THEN ListV(Elements(InValue(i)))
                     ELSE ListFormMapping(InValue(i))
    ]_vars

\* Some object of a class other than own is to be built from an object spec
RECURSIVE NeedsOther(_, _, _)
NeedsOther(ts, v, own) ==
  CASE ts.ts = "class" ->
         /\ ts.cls # own
         /\ ~is_direct_object(v, ts.cls)
         /\ is_object_spec(v)
    [] ts.ts = "list" ->
         /\ IsSequence(v)
         /\ \E j \in 1..Len(Elements(v)) : NeedsOther(ts.elem, Elements(v)[j], own)
    [] OTHER -> FALSE

\* C7: make on a Manufacturer bound to no Broker, with a manifest that gives
\* a parameter of another class as an object spec, raises GraphError (and no
\* callable is invoked).
C7_UnboundGraphError ==
  [][(/\ last'.op = "make"
      /\ broker_ref[last'.m] = NoBroker
      /\ last'.key # None
      /\ CalledUnit # NoFct
      /\ is_kwargs(last'.inputs)
      /\ DictKeys(Kwargs(last'.inputs)) \subseteq SigNames(CalledUnit)
      /\ \E i \in Ins : NeedsOther(InType(i), InValue(i), cls(last'.m)))
     =>
       /\ last'.err = "GraphError"
       /\ last'.calls = <<>>
       /\ last'.result = NoneV
    ]_vars
C7_Witness ==
  /\ last.op = "make" /\ last.m = "mB" /\ last.err = "GraphError"
  /\ broker_ref["mB"] = NoBroker
  /\ broker_mfrs[TheBroker]["A"] = "mA"
  /\ last.inputs = D1("a", D1("create", D1("u", IntV(1))))

----------------------------------------------------------------------------
(* The evaluator step by step: Broker.make(cls, "create", inputs) on a     *)
(* Broker that holds the three Manufacturers of the catalogue, one         *)
(* iteration of the loop of PostorderDFS.__call__ at a time.  dfs holds    *)
(*   phase   "idle", "create" (the walk of _create_exec_tree), "run" (the  *)
(*           walk of the exec tree), "done" (returned), "failed" (raised)  *)
(*   c, inputs  the arguments of the call                                  *)
(*   p, seed    the PostorderDFS of the phase and the seed it is called on *)
(*   st         the loop's state                                           *)
(*   fused      the frames fused so far in the phase, with their arguments *)
(*   prev       whether the make that returned just before this one had    *)
(*              the same arguments, and the number of calls it made        *)

\* Manifests of the walks: well-formed ones of each shape, nested up to
\* C -> [B] -> A, and ill-formed ones that raise in either position
DFSInputs(c) ==
  CASE c = "A" -> {D1("u", IntV(1)), DictV(<<>>), IntV(1)}
    [] c = "B" -> {D1("a", AObj),
                   D2("a", D1("create", D1("u", IntV(1))), "z", IntV(5)),
                   D1("a", D2("key", S("create"), "inputs", D1("u", IntV(2)))),
                   D1("a", D1("missing", NoneV))}
    [] c = "C" -> {D1("xs", ListV(<<IntV(1), IntV(2)>>)),
                   D1("xs", IntV(3)),
                   D2("xs", ListV(<<IntV(1)>>), "d",
                      ListV(<<D2("key", S("a"), "value", IntV(1)),
                              D2("key", S("b"), "value", IntV(2))>>)),
                   D2("xs", ListV(<<IntV(1)>>), "d",
                      ListV(<<D2("key", S("a"), "value", IntV(1)),
                              D1("key", S("b"))>>))}
                    \cup {D2("xs", ListV(<<>>), "bs",
                             ListV([i \in 1..k |-> b])) :
                            k \in 1..MaxLen, b \in BManifests}

NoPrev == [again |-> FALSE, n |-> 0]
CreateDFS(self) == [name |-> "create", self |-> self]
RunDFS == [name |-> "run"]
\* The seed of _create_exec_tree: (TypeSpec of the class, {key: inputs})
SeedItem(c, key, inputs) ==
  Item(ClassTS(c), DictV(<<<<StrV(key), inputs>>>>))
DFSIdle ==
  [phase |-> "idle", c |-> "None", inputs |-> NoneV, p |-> RunDFS,
   seed |-> NoneV, st |-> [DFSStart(NoneV, TheBrk) EXCEPT !.stack = <<>>],
   fused |-> <<>>, prev |-> NoPrev, self |-> NoMfr, held |-> NoBroker]

InitDFS ==
  /\ user_fcts = [m \in MakeMfrs \cup AutoMfrs |->
                    IF m \in MakeMfrs
                    THEN <<<<CreateKey, CatalogueFactory(m)>>>> ELSE <<>>]
  /\ builtin_fcts = [m \in MakeMfrs \cup AutoMfrs |-> _install_builtins(m)]
  /\ default = [m \in MakeMfrs \cup AutoMfrs |-> None]
  /\ next_id = 4
  /\ broker_mfrs = [b \in Brokers |-> [c \in MakeClasses |->
                      IF b = TheBroker
                      THEN CHOOSE m \in MakeMfrs : cls(m) = c ELSE NoMfr]]
  /\ brokers = [b \in Brokers |-> "held"]
  /\ broker_ref = [m \in MakeMfrs \cup AutoMfrs |->
                     IF m \in MakeMfrs THEN TheBroker ELSE NoBroker]
  /\ bind_attr = [m \in MakeMfrs \cup AutoMfrs |-> "method"]
  /\ dfs = DFSIdle
  /\ threads = NoThreads
  /\ locks = NoLocks
  /\ last = NoCall

\* Broker.make -> Manufacturer.make -> _make, up to the call of the
\* PostorderDFS of _create_exec_tree
DFSBegin(c, inputs) ==
  /\ dfs.phase \in {"idle", "done", "failed"}
  /\ LET g == get_or_create(TheBroker, TheBrk, c)
         prev == IF dfs.phase = "done" /\ dfs.c = c /\ dfs.inputs = inputs
                 THEN [again |-> TRUE, n |-> Len(dfs.st.calls)]
                 ELSE NoPrev
         call == [DFSIdle EXCEPT !.c = c, !.inputs = inputs, !.prev = prev,
                                 !.st.brk = g.brk]
     IN  /\ dfs' =
              IF get(g.mfr, CreateKey) = NoFct
              THEN [call EXCEPT !.phase = "failed", !.st.err = "KeyError"]
              ELSE IF ~is_kwargs(inputs)
              THEN [call EXCEPT !.phase = "failed", !.st.err = "TypeError"]
              ELSE [call EXCEPT
                      !.phase = "create",
                      !.self = g.mfr,
                      !.held = held_broker(g.brk, g.mfr),
                      !.p = CreateDFS(g.mfr),
                      !.seed = SeedItem(cls(g.mfr), CreateKey, inputs),
                      !.st = DFSStart(SeedItem(cls(g.mfr), CreateKey, inputs),
                                      g.brk)]
         /\ SetBrk(g.brk)
  /\ UNCHANGED <<thrvars, regvars, last>>

\* The iteration pops the top frame and fuses it
IsFuse(st) ==
  /\ st.stack[Len(st.stack)].items = <<>>
  /\ st.stack[Len(st.stack)].err = StopIteration

\* One iteration of the while loop
DFSLoop ==
  /\ dfs.phase \in {"create", "run"}
  /\ ~DFSDone(dfs.st)
  /\ LET top == dfs.st.stack[Len(dfs.st.stack)]
         \* the Brokers as they are now, not as they were when it began
         st == DFSStep(dfs.p, [dfs.st EXCEPT !.brk.state = brokers])
     IN  /\ dfs' = [dfs EXCEPT
                      !.st = st,
                      !.fused = IF IsFuse(dfs.st)
                                THEN Append(@, [fuse |-> top.fuse,
                                                args |-> top.fuse_items])
                                ELSE @]
         /\ SetBrk(st.brk)
  /\ UNCHANGED <<thrvars, regvars, last>>

\* _make: the exec tree is built, PostorderDFS(_run_exec_tree_proc)(root)
DFSRunTree ==
  /\ dfs.phase = "create"
  /\ dfs.st.stack = <<>> /\ dfs.st.err = "none"
  /\ dfs' = [dfs EXCEPT !.phase = "run", !.p = RunDFS,
                        !.seed = dfs.st.result,
                        !.st = DFSStart(dfs.st.result, dfs.st.brk),
                        !.fused = <<>>]
  /\ UNCHANGED <<thrvars, regvars, brkvars, last>>

\* An exception of proc_fn, of an iterator or of a fuse function leaves
\* __call__ and make
DFSRaise ==
  /\ dfs.phase \in {"create", "run"}
  /\ dfs.st.err # "none"
  /\ dfs' = [dfs EXCEPT !.phase = "failed"]
  /\ UNCHANGED <<thrvars, regvars, brkvars, last>>

\* make returns the result of the second walk
DFSReturn ==
  /\ dfs.phase = "run"
  /\ dfs.st.stack = <<>> /\ dfs.st.err = "none"
  /\ dfs' = [dfs EXCEPT !.phase = "done"]
  /\ UNCHANGED <<thrvars, regvars, brkvars, last>>

NextDFS ==
  \/ \E c \in MakeClasses : \E i \in DFSInputs(c) : DFSBegin(c, i)
  \/ DFSLoop
  \/ DFSRunTree
  \/ DFSRaise
  \/ DFSReturn

SpecDFS == InitDFS /\ [][NextDFS]_vars
\* The loop is sequential code: once called, it keeps running
FairSpecDFS ==
  SpecDFS /\ WF_vars(DFSLoop \/ DFSRunTree \/ DFSRaise \/ DFSReturn)

----------------------------------------------------------------------------
(* The recursive postorder evaluation of the tree a proc_fn presents: the  *)
(* reference the walks are compared with.  A result is                     *)
(*   err    the exception raised, "none" for a value                       *)
(*   vals   what the item hands to the frame above it                      *)
(*   fused  the frames fused, in order, each with its arguments            *)
(*   calls  the calls of registered callables made                         *)
(*   depth  the number of frames nested in one another                     *)

Max2(a, b) == IF a >= b THEN a ELSE b

\* The frame of fuse is fused on the results ch of its children
RecFuse(fuse, own, ch) ==
  IF ch.err # "none" THEN [ch EXCEPT !.vals = <<>>, !.depth = @ + 1]
  ELSE LET f == Apply(fuse, ch.vals)
       IN  [err |-> f.err,
            vals |-> IF f.err = "none" THEN own \o <<f.val>> ELSE <<>>,
            brk |-> ch.brk,
            fused |-> Append(ch.fused, [fuse |-> fuse, args |-> ch.vals]),
            calls |-> ch.calls \o f.calls,
            depth |-> ch.depth + 1]

RECURSIVE RecEval(_, _, _)
RECURSIVE RecEvalAll(_, _, _, _)
\* The evaluation of one item
RecEval(p, brk, item) ==
  LET r == proc_fn(p, brk, item)
      own == IF r.has_item THEN <<r.item>> ELSE <<>>
  IN  IF r.err # "none" \/ ~r.has_node
      THEN [err |-> r.err, vals |-> own, brk |-> r.brk, fused |-> <<>>,
            calls |-> <<>>, depth |-> 0]
      ELSE RecFuse(r.node.fuse, own,
                   RecEvalAll(p, r.brk, r.node.items, r.node.err))
\* The evaluation of the items of an iterator, in order, up to the first
\* exception; enderr is what the iterator raises after them
RecEvalAll(p, brk, items, enderr) ==
  IF items = <<>>
  THEN [err |-> IF enderr = StopIteration THEN "none" ELSE enderr,
        vals |-> <<>>, brk |-> brk, fused |-> <<>>, calls |-> <<>>,
        depth |-> 0]
  ELSE LET h == RecEval(p, brk, Head(items))
       IN  IF h.err # "none" THEN h
           ELSE LET t == RecEvalAll(p, h.brk, Tail(items), enderr)
                IN  [err |-> t.err, vals |-> h.vals \o t.vals, brk |-> t.brk,
                     fused |-> h.fused \o t.fused,
                     calls |-> h.calls \o t.calls,
                     depth |-> Max2(h.depth, t.depth)]
\* The evaluation of a seed: the frame of the seed holds the one item
RecTop(p, brk, seed) ==
  RecFuse(SeedFn, <<>>, RecEvalAll(p, brk, <<seed>>, StopIteration))

IsPrefix(s, t) == Len(s) <= Len(t) /\ s = SubSeq(t, 1, Len(s))

\* The object-spec nodes of a manifest, children before their parent, each
\* with the unit it names
RECURSIVE ObjectSpecNodes(_)
RECURSIVE ObjectSpecNodesAll(_)
ObjectSpecNodes(item) ==
  IF item.ty = NoneV THEN <<>>
  ELSE IF Is(item.ty, "ts")
  THEN ObjectSpecNodesAll(parse_manifest(item.ty, item.obj).items)
  ELSE IF is_direct_object(item.obj, item.ty.cls) THEN <<>>
  ELSE LET fct == get(broker_mfrs[TheBroker][item.ty.cls], item.obj.objspec.str)
       IN  Append(ObjectSpecNodesAll(parse_inputs(fct, item.obj.inputs).items),
                  [fct |-> fct, spec |-> item.obj.raw])
ObjectSpecNodesAll(items) ==
  IF items = <<>> THEN <<>>
  ELSE ObjectSpecNodes(Head(items)) \o ObjectSpecNodesAll(Tail(items))

\* The instances built by registered callables that a value holds
RECURSIVE Built(_)
Built(v) ==
  IF Is(v, "inst") THEN IF v.by = 0 THEN {} ELSE {v}
  ELSE IF IsSequence(v)
  THEN UNION {Built(Elements(v)[i]) : i \in 1..Len(Elements(v))}
  ELSE IF Is(v, "dict")
  THEN UNION {Built(v.dict[i][1]) \cup Built(v.dict[i][2]) :
                i \in 1..Len(v.dict)}
  ELSE {}

Walking == dfs.phase \in {"create", "run"}
TheNodes == ObjectSpecNodes(SeedItem(dfs.c, CreateKey, dfs.inputs))

\* C8: one make invokes exactly one callable per object-spec node of the
\* manifest, none twice and none skipped, each only after the callables of
\* the object-spec nodes in its inputs have returned; a second make of the
\* same manifest invokes all of them again.
C8_OncePerNode ==
  /\ dfs.phase = "create" => dfs.st.calls = <<>>
  /\ dfs.phase \in {"run", "done"} =>
       LET calls == dfs.st.calls
       IN  /\ Len(calls) <= Len(TheNodes)
           /\ \A j \in 1..Len(calls) :
                 /\ calls[j].fct = TheNodes[j].fct
                 /\ \A x \in Built(DictV(calls[j].kwargs)) :
                       \E i \in 1..(j - 1) :
                          x = fn(calls[i].fct, calls[i].kwargs)
           /\ dfs.phase = "done" => Len(calls) = Len(TheNodes)
  /\ (dfs.phase = "done" /\ dfs.prev.again) =>
       Len(dfs.st.calls) = dfs.prev.n
C8_Witness ==
  /\ dfs.phase = "done"
  /\ dfs.prev.again
  /\ Len(TheNodes) = 5
  /\ Len(dfs.st.calls) = 5

\* C9: PostorderDFS returns what the recursive postorder evaluation
\* returns; it fuses the same frames in the same order, each once, on the
\* results of its children in the order they were pulled, and raises what
\* the recursive evaluation raises.
C9_PostorderDFS ==
  Walking =>
    LET ref == RecTop(dfs.p, TheBrk, dfs.seed)
    IN  /\ IsPrefix(dfs.fused, ref.fused)
        /\ dfs.st.calls = <<>> \/ IsPrefix(dfs.st.calls, ref.calls)
        /\ (dfs.st.stack = <<>> /\ dfs.st.err = "none") =>
              /\ ref.err = "none"
              /\ dfs.st.result = ref.vals[1]
              /\ dfs.fused = ref.fused
        /\ dfs.st.err # "none" =>
              /\ ref.err = dfs.st.err
              /\ dfs.fused = ref.fused
C9_Witness ==
  /\ dfs.phase = "run"
  /\ dfs.st.stack = <<>> /\ dfs.st.err = "none"
  /\ Len(dfs.fused) >= 10
  /\ dfs.st.result = RecTop(dfs.p, TheBrk, dfs.seed).vals[1]
  /\ Is(dfs.st.result, "inst")

\* The nesting depth of the tree of the walk, in frames
TreeDepth == RecEval(dfs.p, TheBrk, dfs.seed).depth
StackBound == Walking => Len(dfs.st.stack) <= TreeDepth + 1
\* The manifest of the call has a value: both walks of the recursive
\* evaluation end without an exception
HasValue ==
  /\ is_kwargs(dfs.inputs)
  /\ LET tree == RecTop(CreateDFS(broker_mfrs[TheBroker][dfs.c]), TheBrk,
                        SeedItem(dfs.c, CreateKey, dfs.inputs))
     IN  /\ tree.err = "none"
         /\ RecTop(RunDFS, TheBrk, tree.vals[1]).err = "none"

\* C10: every evaluation ends, with a result when the tree has one; the
\* stack never holds more than (nesting depth of the tree + 1) frames.
C10_StackAndTermination ==
  /\ [](StackBound)
  /\ [](dfs.phase = "failed" => ~HasValue)
  /\ Walking ~> (dfs.phase \in {"done", "failed"})
C10_Witness ==
  /\ dfs.phase = "create"
  /\ TreeDepth = 8
  /\ Len(dfs.st.stack) = TreeDepth + 1


----------------------------------------------------------------------------
(* Signature.create: afb/core/factory.py *)

\* fn_util.FnArgSpec of a callable: the names of its parameters without and
\* with a default, in the order of the parameter list, and whether it has a
\* catch-all **kwargs
FnArgSpec(rqd, opt, kw) == [required |-> rqd, optional |-> opt, kwargs |-> kw]

Range(seq) == {seq[i] : i \in 1..Len(seq)}
\* The keys of an ordered dict of ParameterSpecs, and the entry of a key
ParamNames(param_specs) == {param_specs[i].name : i \in 1..Len(param_specs)}
ParamOf(param_specs, k) ==
  param_specs[CHOOSE i \in 1..Len(param_specs) : param_specs[i].name = k]

\* An ordered signature that lists the optional parameters first
optional_then_required(required, optional) == optional \o required
\* ordered_param_specs = OrderedDict(required); .update(optional)
ordered_param_specs(required, optional) == required \o optional

\* Signature.create(fn, param_specs)
Signature_create(fas, param_specs) ==
  LET declared == ParamNames(param_specs)
      missing == SelectSeq(fas.required, LAMBDA k : k \notin declared)
      \* the parameters of fn that are declared, popped from param_specs
      rqd == [i \in 1..Len(fas.required) |->
                ParamOf(param_specs, fas.required[i])]
      opt_names == SelectSeq(fas.optional, LAMBDA k : k \in declared)
      opt == [i \in 1..Len(opt_names) |-> ParamOf(param_specs, opt_names[i])]
      \* what is left of param_specs
      rest == SelectSeq(param_specs,
                        LAMBDA ps : ps.name \notin Range(fas.required)
                                                  \cup Range(fas.optional))
      \* [optional, required][ps.required][k] = ps
      required == rqd \o SelectSeq(opt \o rest, LAMBDA ps : ps.required)
      optional == SelectSeq(opt \o rest, LAMBDA ps : ~ps.required)
  IN  IF missing # <<>>
      THEN [err |-> "SignatureError", what |-> "Missing", listed |-> missing,
            ordered |-> <<>>, required |-> {}, optional |-> {}]
      ELSE IF rest # <<>> /\ ~fas.kwargs
      THEN [err |-> "SignatureError", what |-> "No such",
            listed |-> [i \in 1..Len(rest) |-> rest[i].name],
            ordered |-> <<>>, required |-> {}, optional |-> {}]
      ELSE [err |-> "none", what |-> "none", listed |-> <<>>,
            ordered |-> ordered_param_specs(required, optional),
            required |-> ParamNames(required),
            optional |-> ParamNames(optional)]

----------------------------------------------------------------------------
(* The operations of a unit: merge_inputs, Signature.create, and make on a *)
(* Manufacturer of A whose units build an A, None, an A1 and a B            *)

UnitKeys == {<<"create">>, <<"none">>, <<"sub">>, <<"other">>}
UnitFactory(key) ==
  CASE key = <<"create">> -> NewFactory(1, "A", "A_create")
    [] key = <<"none">>   -> NewFactory(5, "A", "return_None")
    [] key = <<"sub">>    -> NewFactory(6, "A", "return_A1")
    [] key = <<"other">>  -> NewFactory(7, "A", "return_B")

\* The units merge_inputs is called on
MergeUnits == {NewFactory(2, "B", "B_create"), NewFactory(4, "A", "A_pair")}
\* Keyword arguments: every set of these names, each with the value 2
ArgOrder == <<"a", "z", "p", "q", "r", "x">>
KwargsOf(names) ==
  LET given == SelectSeq(ArgOrder, LAMBDA n : n \in names)
  IN  [i \in 1..Len(given) |-> <<S(given[i]), IntV(2)>>]
MergeKwargs == {KwargsOf(names) : names \in SUBSET Range(ArgOrder)}

\* The callables and declared signatures of Signature.create: each name of
\* FnOrder is a parameter without a default, one with a default, or none;
\* each name of SigOrder is not declared, declared, or declared with
\* required=True
FnOrder == <<"a", "b">>
SigOrder == <<"a", "b", "c">>
FnArgSpecs ==
  {FnArgSpec(SelectSeq([i \in 1..Len(FnOrder) |-> S(FnOrder[i])],
                       LAMBDA k : f[k] = "required"),
             SelectSeq([i \in 1..Len(FnOrder) |-> S(FnOrder[i])],
                       LAMBDA k : f[k] = "optional"),
             kw) :
     f \in [{S(n) : n \in Range(FnOrder)} -> {"required", "optional", "no"}],
     kw \in BOOLEAN}
Reversed(seq) == [i \in 1..Len(seq) |-> seq[Len(seq) + 1 - i]]
ParamSpecs ==
  UNION {LET ps == [i \in 1..Len(SigOrder) |->
                      Param(SigOrder[i], ClassTS("int"),
                            g[SigOrder[i]] = "required")]
             declared == SelectSeq(ps, LAMBDA e : g[e.name.str[1]] # "no")
         IN  {declared, Reversed(declared)} :
           g \in [Range(SigOrder) -> {"no", "plain", "required"}]}

InitUnit ==
  /\ user_fcts = [m \in MakeMfrs \cup AutoMfrs |->
                    IF m = "mA"
                    THEN <<<<<<"create">>, UnitFactory(<<"create">>)>>,
                           <<<<"none">>, UnitFactory(<<"none">>)>>,
                           <<<<"sub">>, UnitFactory(<<"sub">>)>>,
                           <<<<"other">>, UnitFactory(<<"other">>)>>>>
                    ELSE IF m \in MakeMfrs
                    THEN <<<<CreateKey, CatalogueFactory(m)>>>> ELSE <<>>]
  /\ builtin_fcts = [m \in MakeMfrs \cup AutoMfrs |-> _install_builtins(m)]
  /\ default = [m \in MakeMfrs \cup AutoMfrs |-> None]
  /\ next_id = 8
  /\ broker_mfrs = [b \in Brokers |-> [c \in MakeClasses |->
                      IF b = TheBroker
                      THEN CHOOSE m \in MakeMfrs : cls(m) = c ELSE NoMfr]]
  /\ brokers = [b \in Brokers |-> "held"]
  /\ broker_ref = [m \in MakeMfrs \cup AutoMfrs |->
                     IF m \in MakeMfrs THEN TheBroker ELSE NoBroker]
  /\ bind_attr = [m \in MakeMfrs \cup AutoMfrs |-> "method"]
  /\ dfs = Idle
  /\ threads = NoThreads
  /\ locks = NoLocks
  /\ last = NoCall

\* Factory.merge_inputs(**kwargs) on the unit fct
MergeInputs(fct, kwargs) ==
  /\ \E r \in {merge_inputs(fct, kwargs)} :
         last' = [NoCall EXCEPT !.op = "merge_inputs", !.fct = fct,
                    !.inputs = DictV(kwargs), !.err = r.err,
                    !.result = IF r.err = "none" THEN DictV(r.merged)
                               ELSE NoneV,
                    !.what = r.what, !.listed = r.listed]
  /\ UNCHANGED <<thrvars, regvars, brkvars, dfs>>

\* Signature.create(fn, param_specs)
SignatureCreate(fas, param_specs) ==
  /\ \E r \in {Signature_create(fas, param_specs)} :
         last' = [NoCall EXCEPT !.op = "Signature.create",
                    !.inputs = [fn |-> fas, param_specs |-> param_specs],
                    !.err = r.err,
                    !.result = [ordered |-> r.ordered,
                                required |-> r.required,
                                optional |-> r.optional],
                    !.what = r.what, !.listed = Range(r.listed)]
  /\ UNCHANGED <<thrvars, regvars, brkvars, dfs>>

NextUnit ==
  \/ \E fct \in MergeUnits : \E kwargs \in MergeKwargs :
        MergeInputs(fct, kwargs)
  \/ \E fas \in FnArgSpecs : \E ps \in ParamSpecs : SignatureCreate(fas, ps)
  \/ \E key \in UnitKeys : \E i \in AInputs : Make("mA", key, i)

SpecUnit == InitUnit /\ [][NextUnit]_vars



----------------------------------------------------------------------------
(* merge_inputs, the check of a unit's result, Signature.create *)

IsMergeInputs == last.op = "merge_inputs"
\* What the signature of the unit declares, and what it requires
Declared(fct) == {Signature(fct.tmpl)[i].name : i \in 1..Len(Signature(fct.tmpl))}
Required(fct) ==
  {p.name : p \in {q \in Range(Signature(fct.tmpl)) : q.required}}
\* The keys of the defaults overlaid by the arguments of the call
ResultingKeys ==
  DictKeys(Defaults(last.fct.tmpl)) \cup DictKeys(Kwargs(last.inputs))
MergeReturns ==
  /\ last.err = "none"
  /\ AsMap(last.result.dict) = Overlaid(last.fct, last.inputs)
MergeRaises(what, names) ==
  /\ last.err = "ArgumentError"
  /\ last.what = what
  /\ last.listed = names

\* C11 as stated: merge_inputs returns the declared defaults overlaid by the
\* arguments of the call when the resulting keys are all declared and cover
\* the required keys; if any resulting key is undeclared it raises an
\* ArgumentError that lists all undeclared keys; if any required key is
\* absent it raises an ArgumentError that lists all missing required keys.
C11_AsStated ==
  IsMergeInputs =>
    /\ (ResultingKeys \subseteq Declared(last.fct)
        /\ Required(last.fct) \subseteq ResultingKeys) => MergeReturns
    /\ ~(ResultingKeys \subseteq Declared(last.fct)) =>
          MergeRaises("Invalid", ResultingKeys \ Declared(last.fct))
    /\ ~(Required(last.fct) \subseteq ResultingKeys) =>
          MergeRaises("Missing", Required(last.fct) \ ResultingKeys)

\* C11: merge_inputs returns the declared defaults overlaid by the arguments
\* of the call when the resulting keys are all declared and cover the
\* required keys; if any resulting key is undeclared it raises an
\* ArgumentError that lists all undeclared keys, whether or not a required
\* key is absent as well; if every resulting key is declared and a required
\* key is absent it raises an ArgumentError that lists all missing required
\* keys.
C11_MergeInputs ==
  IsMergeInputs =>
    /\ (ResultingKeys \subseteq Declared(last.fct)
        /\ Required(last.fct) \subseteq ResultingKeys) => MergeReturns
    /\ ~(ResultingKeys \subseteq Declared(last.fct)) =>
          MergeRaises("Invalid", ResultingKeys \ Declared(last.fct))
    /\ (ResultingKeys \subseteq Declared(last.fct)
        /\ ~(Required(last.fct) \subseteq ResultingKeys)) =>
          MergeRaises("Missing", Required(last.fct) \ ResultingKeys)

\* A call with two undeclared keys and a required key absent has raised
C11_Witness ==
  /\ IsMergeInputs
  /\ Cardinality(ResultingKeys \ Declared(last.fct)) = 2
  /\ Required(last.fct) \ ResultingKeys # {}
  /\ last.err = "ArgumentError"

\* A make of mA whose arguments reach the callable of the unit of the key
IsUnitMake ==
  /\ last.op = "make"
  /\ last.key \in UnitKeys
  /\ last.inputs \in {D1("u", IntV(1)), D1("u", IntV(2))}
\* What the callable of that unit returns for the arguments of the call
CallableResult == fn(UnitFactory(last.key), last.inputs.dict)

\* C12: invoking a unit succeeds and returns the callable's result when that
\* result is None or an instance of the unit's target class; any other
\* result fails with a type mismatch and no value reaches the caller of
\* make.
C12_ResultCheck ==
  IsUnitMake =>
    IF CallableResult = NoneV
       \/ isinstance(CallableResult, UnitFactory(last.key).cls)
    THEN last.err = "none" /\ last.result = CallableResult
    ELSE last.err = "TypeError" /\ last.result = NoneV

IsSignatureCreate == last.op = "Signature.create"
FnRequired == Range(last.inputs.fn.required)
FnParameters == FnRequired \cup Range(last.inputs.fn.optional)
DeclaredKeys == ParamNames(last.inputs.param_specs)
\* The declared keys that are no parameter of the callable
SinkKeys == DeclaredKeys \ FnParameters
\* The declared keys whose parameter spec says required=True
FlaggedKeys ==
  {ps.name : ps \in {q \in Range(last.inputs.param_specs) : q.required}}
CreateRejected ==
  \/ ~(FnRequired \subseteq DeclaredKeys)
  \/ SinkKeys # {} /\ ~last.inputs.fn.kwargs
\* required and optional partition the declared keys, and the ordered
\* signature lists each declared key once, the required ones first
WellFormedSignature ==
  LET ordered == last.result.ordered
  IN  /\ last.result.required \cap last.result.optional = {}
      /\ last.result.required \cup last.result.optional = DeclaredKeys
      /\ ParamNames(ordered) = DeclaredKeys
      /\ Len(ordered) = Cardinality(DeclaredKeys)
      /\ \A i \in 1..Len(ordered) : \A j \in 1..Len(ordered) :
            (i < j /\ ordered[j].name \in last.result.required)
              => ordered[i].name \in last.result.required

\* C13 as stated: a parameter of the callable without a default that is not
\* declared is a SignatureError; a declared key that is no parameter of the
\* callable is a SignatureError unless the callable has a catch-all keyword
\* sink, and is then accepted as optional; on success required and optional
\* are disjoint, their union is the declared keys, and the ordered signature
\* lists all required keys before all optional keys.
C13_AsStated ==
  IsSignatureCreate =>
    IF CreateRejected THEN last.err = "SignatureError"
    ELSE /\ last.err = "none"
         /\ SinkKeys \subseteq last.result.optional
         /\ WellFormedSignature

\* C13: a parameter of the callable without a default that is not declared
\* is a SignatureError; a declared key that is no parameter of the callable
\* is a SignatureError unless the callable has a catch-all keyword sink, and
\* is then accepted: as optional, or as required when its parameter spec is
\* declared with required=True; on success required and optional are
\* disjoint, their union is the declared keys, and the ordered signature
\* lists all required keys before all optional keys.
C13_SignatureCreate ==
  IsSignatureCreate =>
    IF CreateRejected THEN last.err = "SignatureError"
    ELSE /\ last.err = "none"
         /\ SinkKeys \ FlaggedKeys \subseteq last.result.optional
         /\ SinkKeys \cap FlaggedKeys \subseteq last.result.required
         /\ WellFormedSignature

\* A signature was built whose sink took a key as optional and one as
\* required, for a callable with a parameter without a default
C13_Witness ==
  /\ IsSignatureCreate
  /\ last.err = "none"
  /\ FnRequired # {}
  /\ SinkKeys \cap last.result.optional # {}
  /\ SinkKeys \cap last.result.required # {}


----------------------------------------------------------------------------
(* The two partitions of a Manufacturer, in every state of Spec *)

\* The units a partition holds
Units(d) == {d[i][2] : i \in 1..Len(d)}
\* The keys a caller may look up: the ones in use and the ones of register
ProbeKeys(m) ==
  DictKeys(user_fcts[m]) \cup DictKeys(builtin_fcts[m]) \cup RegisterKeys
\* The Factory objects that register has constructed for its callers
IsUserRegistered(u) == u.id >= 1

----------------------------------------------------------------------------
(* The default key: register, merge, assignments of default, and make with *)
(* the key omitted                                                         *)

\* Manufacturer.default (setter)
set_default(m, key) ==
  IF key # None /\ ~contains(m, key)
  THEN [err |-> "KeyError", default |-> default[m]]
  ELSE [err |-> "none", default |-> key]

\* The keys a caller assigns: None, a key nobody registers, the keys of
\* register, the keys the Manufacturer holds
DefaultKeys(m) ==
  {None, <<"missing">>} \cup RegisterKeys \cup DictKeys(user_fcts[m])

\* mfr.default = key
SetDefault(m, key) ==
  /\ \E r \in {set_default(m, key)} :
        /\ default' = [default EXCEPT ![m] = r.default]
        /\ last' = [NoCall EXCEPT !.op = "default", !.m = m, !.key = key,
                      !.err = r.err]
  /\ UNCHANGED <<thrvars, user_fcts, builtin_fcts, next_id, brkvars, dfs>>

\* mfr.make(): key and inputs omitted
MakeDefault(m) ==
  /\ \E r \in {make(m, None, NoneV, TheBrk)} :
        /\ SetBrk(r.brk)
        /\ last' = [NoCall EXCEPT !.op = "make", !.m = m, !.key = None,
                      !.inputs = NoneV, !.err = r.err, !.result = r.result,
                      !.calls = r.calls]
  /\ UNCHANGED <<thrvars, regvars, dfs>>

\* No call removes a key, so the registrations and merges that add keys are
\* the ones that matter to the default: without override, under no root or
\* the root "r"
NextDefault ==
  \/ \E m \in Mfrs, key \in RegisterKeys : Register(m, key, "create", FALSE)
  \/ \E m \in Mfrs, mfr \in Mfrs, root \in {None, <<"r">>} :
        Merge(m, mfr, root, FALSE, TRUE, <<"/">>)
  \/ \E m \in Mfrs : \E key \in DefaultKeys(m) : SetDefault(m, key)
  \/ \E m \in Mfrs : MakeDefault(m)

SpecDefault == Init /\ [][NextDefault]_vars

\* C15: after any sequence of register, merge and assignments of the default
\* key, the default key is unset or names a unit that get returns, so a make
\* with the key omitted never fails with an unresolved key while the default
\* is set; assigning a key that is not registered is rejected with a
\* KeyError and leaves the default key unchanged.
C15_DefaultKey ==
  /\ [](\A m \in Mfrs : default[m] # None => get(m, default[m]) # NoFct)
  /\ [][/\ (last'.op = "make" /\ last'.key = None
            /\ default[last'.m] # None) => last'.err # "KeyError"
        /\ (last'.op = "default" /\ last'.key # None
            /\ get(last'.m, last'.key) = NoFct)
             => (last'.err = "KeyError" /\ default' = default)
       ]_vars


----------------------------------------------------------------------------
(* What a merge copies *)

\* The keys of self whose unit the call has added or replaced
Written(m) ==
  {key \in DictKeys(user_fcts'[m]) :
     user_unit_after(m, key) # user_unit(m, key)}

\* C16: merge(other) leaves the builtin partition of self unchanged and
\* copies only units of the user partition of other: every unit added under
\* root+sep+k is the unit other holds in its user partition under k, never
\* one of other's builtin units, for every user key k, the keys that start
\* with the reserved prefix included.
C16_MergeUserOnly ==
  [][last'.op = "merge" =>
       /\ builtin_fcts' = builtin_fcts
       /\ \A key \in Written(last'.m) :
             /\ \E k \in DictKeys(user_fcts[last'.mfr]) :
                   /\ key = merged_name(last'.root, k, last'.sep)
                   /\ user_unit_after(last'.m, key) = user_unit(last'.mfr, k)
             /\ user_unit_after(last'.m, key)
                  \notin Units(builtin_fcts[last'.mfr])
    ]_vars


----------------------------------------------------------------------------
(* Two Brokers: registering, replacing and moving the Manufacturers of B   *)

\* The Manufacturers of the application: mA and mB are the ones the first
\* Broker is created with, mB2 is another Manufacturer of B
BrokerMfrs == {"mA", "mB", "mB2"}
Auto2Mfrs == {AutoMfrOf("brk2", c) : c \in MakeClasses}
AllMfrs == BrokerMfrs \cup AutoMfrs \cup Auto2Mfrs
BrokerFactory(m) ==
  IF m = "mB2" THEN NewFactory(8, "B", "B_create") ELSE CatalogueFactory(m)
\* The Manufacturers that are registered, replaced and moved
Movable == {"mB", "mB2"}
\* make of a B: the A it needs as an object spec, or as an object
MovableInputs ==
  {D1("a", D1("create", D1("u", IntV(1)))), D1("a", AObj)}

InitBroker ==
  /\ user_fcts = [m \in AllMfrs |->
                    IF m \in BrokerMfrs
                    THEN <<<<CreateKey, BrokerFactory(m)>>>> ELSE <<>>]
  /\ builtin_fcts = [m \in AllMfrs |-> _install_builtins(m)]
  /\ default = [m \in AllMfrs |-> None]
  /\ next_id = 9
  /\ broker_mfrs = [b \in Brokers |-> [c \in MakeClasses |->
                      IF b = TheBroker /\ c \in {"A", "B"}
                      THEN CHOOSE m \in {"mA", "mB"} : cls(m) = c
                      ELSE NoMfr]]
  /\ brokers = [b \in Brokers |-> "held"]
  /\ broker_ref = [m \in AllMfrs |->
                     IF m \in {"mA", "mB"} THEN TheBroker ELSE NoBroker]
  /\ bind_attr = [m \in AllMfrs |-> "method"]
  /\ dfs = Idle
  /\ threads = NoThreads
  /\ locks = NoLocks
  /\ last = NoCall

\* b.register(mfr, override)
RegisterIn(b, mfr, override) ==
  /\ \E r \in {Broker_register(b, TheBrk, mfr, override)} :
         /\ SetBrk(r.brk)
         /\ last' = [NoCall EXCEPT !.op = "Broker.register", !.broker = b,
                       !.m = mfr, !.override = override, !.err = r.err]
  /\ UNCHANGED <<thrvars, regvars, dfs>>

NextBroker ==
  \/ \E b \in Brokers, m \in Movable, override \in BOOLEAN :
        RegisterIn(b, m, override)
  \/ \E m \in Movable : \E i \in MovableInputs : Make(m, CreateKey, i)

SpecBroker == InitBroker /\ [][NextBroker]_vars

IsBrokerRegister == last'.op = "Broker.register"
\* Broker.get(cls) on the Broker of the call, before and after it
Incumbent == broker_mfrs[last'.broker][cls(last'.m)]
get_cls_after == broker_mfrs'[last'.broker][cls(last'.m)]

\* C17: a Broker holds at most one Manufacturer per class in every state;
\* Broker.register of a Manufacturer whose class already has one raises
\* KeyConflictError when override is false and keeps the incumbent; when
\* override is true, get(cls) afterwards returns the newly registered
\* Manufacturer itself.
C17_OnePerClass ==
  /\ [](\A b \in Brokers : \A c \in MakeClasses :
          broker_mfrs[b][c] # NoMfr => cls(broker_mfrs[b][c]) = c)
  /\ [][(IsBrokerRegister /\ Incumbent # NoMfr) =>
          IF ~last'.override
          THEN /\ last'.err = "KeyConflictError"
               /\ get_cls_after = Incumbent
          ELSE /\ last'.err = "none"
               /\ get_cls_after = last'.m
       ]_vars

\* The call replaces the incumbent by another Manufacturer
IsReplaced ==
  /\ IsBrokerRegister /\ last'.override /\ last'.err = "none"
  /\ Incumbent \notin {NoMfr, last'.m}
\* The Brokers that have no Manufacturer of the class of m after the call
FreeFor(m) == {b \in Brokers : broker_mfrs'[b][cls(m)] = NoMfr}

\* C18: after Broker.register(new, override=True) has replaced an incumbent,
\* the incumbent is detached: its back-reference reads unbound, so a make of
\* it that needs another class raises GraphError, and it is still a usable
\* Manufacturer that can be registered to a Broker again.
C18_IncumbentDetached ==
  [][IsReplaced =>
       /\ _broker(TheBrk', Incumbent) = NoBroker
       /\ make(Incumbent, CreateKey, D1("a", D1("create", D1("u", IntV(1)))),
               TheBrk').err = "GraphError"
       /\ \A b \in FreeFor(Incumbent) :
             Broker_register(b, TheBrk', Incumbent, FALSE).err = "none"
    ]_vars

\* The call registers a Manufacturer that is bound to another Broker, into
\* a Broker that takes it: its class is free there, or override is true
IsMove ==
  /\ IsBrokerRegister
  /\ _broker(TheBrk, last'.m) \notin {NoBroker, last'.broker}
  /\ Incumbent = NoMfr \/ last'.override

\* C19: registering a Manufacturer M that is bound to a Broker D1 into
\* another Broker D2 succeeds and detaches M from D1 first: afterwards D1
\* holds no Manufacturer for the class of M, D2.get(M.cls) is M and the
\* back-reference of M is D2; so a Manufacturer is registered in at most one
\* Broker.
C19_MoveBetweenBrokers ==
  /\ [][IsMove =>
          /\ last'.err = "none"
          /\ broker_mfrs'[_broker(TheBrk, last'.m)][cls(last'.m)] = NoMfr
          /\ get_cls_after = last'.m
          /\ _broker(TheBrk', last'.m) = last'.broker
       ]_vars
  /\ [](\A m \in AllMfrs :
          Cardinality({b \in Brokers : broker_mfrs[b][cls(m)] = m}) <= 1)


----------------------------------------------------------------------------
(* The weak reference to the Broker: the application drops the Broker, the *)
(* collector takes it, while makes of the Manufacturers it still holds run *)
(* one loop iteration at a time                                            *)

\* The Manufacturers the application holds and calls make on
HeldMfrs == {"mA", "mB"}
GCInputs(m) ==
  IF m = "mA" THEN {D1("u", IntV(1))}
  ELSE {D1("a", D1("create", D1("u", IntV(1)))), D1("a", AObj)}

\* Manufacturer.make(key, inputs) on m, up to the call of the PostorderDFS
\* of _create_exec_tree
MakeBegin(m, inputs) ==
  /\ dfs.phase \in {"idle", "done", "failed"}
  /\ LET call == [DFSIdle EXCEPT !.c = cls(m), !.self = m,
                                 !.inputs = inputs, !.st.brk = TheBrk]
     IN  dfs' =
           IF get(m, CreateKey) = NoFct
           THEN [call EXCEPT !.phase = "failed", !.st.err = "KeyError"]
           ELSE IF ~is_kwargs(inputs)
           THEN [call EXCEPT !.phase = "failed", !.st.err = "TypeError"]
           ELSE [call EXCEPT
                   !.phase = "create",
                   !.held = held_broker(TheBrk, m),
                   !.p = CreateDFS(m),
                   !.seed = SeedItem(cls(m), CreateKey, inputs),
                   !.st = DFSStart(SeedItem(cls(m), CreateKey, inputs),
                                   TheBrk)]
  /\ UNCHANGED <<thrvars, regvars, brkvars, last>>

\* The application gives up its last reference to the Broker b
Drop(b) ==
  /\ brokers[b] = "held"
  /\ brokers' = [brokers EXCEPT ![b] = "dropped"]
  /\ UNCHANGED <<thrvars, regvars, broker_mfrs, broker_ref, bind_attr, dfs,
               last>>

\* A make in progress keeps the Broker in the variable _broker of _make
InProgress == dfs.phase \in {"create", "run"}
StronglyHeld(b) == brokers[b] = "held" \/ (InProgress /\ dfs.held = b)

\* The collector takes a Broker that nothing refers to any more, and with it
\* the references of its _mfrs
Collect(b) ==
  /\ brokers[b] = "dropped"
  /\ ~StronglyHeld(b)
  /\ brokers' = [brokers EXCEPT ![b] = "collected"]
  /\ broker_mfrs' = [broker_mfrs EXCEPT ![b] = [c \in MakeClasses |-> NoMfr]]
  /\ UNCHANGED <<thrvars, regvars, broker_ref, bind_attr, dfs, last>>

NextGC ==
  \/ \E m \in HeldMfrs : \E i \in GCInputs(m) : MakeBegin(m, i)
  \/ DFSLoop
  \/ DFSRunTree
  \/ DFSRaise
  \/ DFSReturn
  \/ \E b \in Brokers : Drop(b)
  \/ \E b \in Brokers : Collect(b)

SpecGC == InitDFS /\ [][NextGC]_vars

\* The Broker the weak reference of m was made for has been collected
RefCollected(m) ==
  broker_ref[m] # NoBroker /\ brokers[broker_ref[m]] = "collected"
\* The make in progress, or just ended, needs a Manufacturer of another class
NeedsResolution ==
  /\ dfs.phase # "idle"
  /\ \E i \in 1..Len(Kwargs(dfs.inputs)) :
        is_object_spec(Kwargs(dfs.inputs)[i][2])

\* C20: a Manufacturer never keeps its Broker alive and never revives it:
\* once the Broker it is bound to has been collected, reading the
\* back-reference yields unbound from then on, and every later make that
\* needs another class raises GraphError; while a make is in progress the
\* Broker it started with cannot be collected.
C20_WeakBackReference ==
  /\ [](\A m \in HeldMfrs : RefCollected(m) => _broker(TheBrk, m) = NoBroker)
  /\ [][\A m \in HeldMfrs : RefCollected(m) =>
           (RefCollected(m))' /\ _broker(TheBrk', m) = NoBroker]_vars
  /\ []((NeedsResolution /\ RefCollected(dfs.self) /\ dfs.held = NoBroker) =>
          /\ dfs.phase # "done"
          /\ dfs.phase = "failed" => dfs.st.err = "GraphError")
  /\ [][(InProgress /\ _broker(TheBrk, dfs.self) # NoBroker) =>
          _broker(TheBrk', dfs.self) = _broker(TheBrk, dfs.self)]_vars
  /\ []((dfs.phase = "failed" /\ dfs.held # NoBroker) =>
          dfs.st.err # "GraphError")

\* A make of mB that needs an A has raised GraphError, after the Broker was
\* dropped and collected
C20_Witness ==
  /\ brokers[TheBroker] = "collected"
  /\ dfs.phase = "failed" /\ dfs.st.err = "GraphError"
  /\ dfs.self = "mB" /\ NeedsResolution
  /\ broker_ref["mB"] = TheBroker

----------------------------------------------------------------------------
(* Threads.  Each thread runs one call; a step of a thread is one access    *)
(* to shared state or one blocking lock request.  A `with self._lock`      *)
(* block that requests no lock another thread can hold is one step, taken  *)
(* when the lock can be acquired.                                          *)

Threads == {"t1", "t2", "t3"}

\* threading.RLock: the owning thread and the recursion depth
Free == [owner |-> "none", depth |-> 0]
CanAcquire(l, t) == locks[l].owner \in {"none", t}
Acquire(lk, l, t) == [lk EXCEPT ![l] = [owner |-> t, depth |-> @.depth + 1]]
Release(lk, l) ==
  [lk EXCEPT ![l] = IF @.depth = 1 THEN Free ELSE [@ EXCEPT !.depth = @ - 1]]

\* A thread that runs nothing
NoFrame ==
  [op |-> "none", pc |-> "done", b |-> NoBroker, m |-> NoMfr, c |-> "None",
   mfr |-> NoMfr, key |-> None, override |-> FALSE, keys |-> <<>>,
   err |-> "none", ret |-> NoMfr, created |-> FALSE, slow |-> FALSE,
   acquired |-> 0]
\* The frame of b.get_or_create(c)
GetOrCreateFrame(b, c) ==
  [NoFrame EXCEPT !.op = "get_or_create", !.pc = "goc_get", !.b = b, !.c = c]

\* The Manufacturer that thread t constructs for class c
NewMfr(t, c) ==
  CASE t = "t1" /\ c = "A" -> "t1A" [] t = "t2" /\ c = "A" -> "t2A"
    [] t = "t3" /\ c = "A" -> "t3A" [] t = "t1" /\ c = "B" -> "t1B"
    [] t = "t2" /\ c = "B" -> "t2B" [] t = "t3" /\ c = "B" -> "t3B"
GocClasses == {"A", "B"}
NewMfrs == {NewMfr(t, c) : t \in Threads, c \in GocClasses}

\* A get_or_create that creates without looking again under the lock
not_rechecked(brk, self, c) == TRUE
\* cls not in self._mfrs
not_in_mfrs(brk, self, c) == brk.mfrs[self][c] = NoMfr

\* Broker.get_or_create: mfr = self.get(cls), the read without the lock
GocGet(t) ==
  /\ threads[t].pc = "goc_get"
  /\ LET f == threads[t]
         mfr == broker_mfrs[f.b][f.c]
     IN  threads' = [threads EXCEPT ![t] =
           IF mfr = NoMfr THEN [f EXCEPT !.pc = "goc_lock", !.slow = TRUE]
           ELSE [f EXCEPT !.pc = "done", !.ret = mfr]]
  /\ UNCHANGED <<regvars, brkvars, dfs, locks, last>>

\* with self._lock:
GocLock(t) ==
  /\ threads[t].pc = "goc_lock"
  /\ CanAcquire(threads[t].b, t)
  /\ locks' = Acquire(locks, threads[t].b, t)
  /\ threads' = [threads EXCEPT ![t].pc = "goc_create",
                                 ![t].acquired = @ + 1]
  /\ UNCHANGED <<regvars, brkvars, dfs, last>>

\* The block under the lock: if cls not in self._mfrs:
\* self.register(Manufacturer(cls)).  register takes the lock the thread
\* holds, and _bind the lock of the Manufacturer no other thread has seen.
GocCreate(t) ==
  /\ threads[t].pc = "goc_create"
  /\ LET f == threads[t]
         m == NewMfr(t, f.c)
     IN  \E absent \in {not_in_mfrs(TheBrk, f.b, f.c)} :
         \E r \in {IF absent
                   THEN Broker_register(f.b, Constructed(TheBrk, m), m, FALSE)
                   ELSE [err |-> "none", brk |-> TheBrk]} :
           /\ SetBrk(r.brk)
           /\ threads' = [threads EXCEPT ![t] =
                IF r.err # "none"
                THEN [f EXCEPT !.pc = "done", !.err = r.err, !.created = absent]
                ELSE [f EXCEPT !.pc = "goc_read", !.created = absent]]
           /\ locks' = Release(locks, f.b)
  /\ UNCHANGED <<regvars, dfs, last>>

\* mfr = self._mfrs[cls]; return mfr
GocRead(t) ==
  /\ threads[t].pc = "goc_read"
  /\ LET f == threads[t]
         mfr == broker_mfrs[f.b][f.c]
     IN  threads' = [threads EXCEPT ![t] =
           IF mfr = NoMfr THEN [f EXCEPT !.pc = "done", !.err = "KeyError"]
           ELSE [f EXCEPT !.pc = "done", !.ret = mfr]]
  /\ UNCHANGED <<regvars, brkvars, dfs, locks, last>>

\* A new Broker, and three threads that each call get_or_create on it
InitGoc ==
  /\ user_fcts = [m \in NewMfrs |-> <<>>]
  /\ builtin_fcts = [m \in NewMfrs |-> _install_builtins(m)]
  /\ default = [m \in NewMfrs |-> None]
  /\ next_id = 1
  /\ broker_mfrs = [b \in Brokers |-> [c \in GocClasses |-> NoMfr]]
  /\ brokers = [b \in Brokers |-> "held"]
  /\ broker_ref = [m \in NewMfrs |-> NoBroker]
  /\ bind_attr = [m \in NewMfrs |-> "method"]
  /\ dfs = Idle
  /\ threads \in [Threads -> {GetOrCreateFrame(TheBroker, c) : c \in GocClasses}]
  /\ locks = [l \in Brokers \cup NewMfrs |-> Free]
  /\ last = NoCall

NextGoc ==
  \/ \E t \in Threads : GocGet(t)
  \/ \E t \in Threads : GocLock(t)
  \/ \E t \in Threads : GocCreate(t)
  \/ \E t \in Threads : GocRead(t)

SpecGoc == InitGoc /\ [][NextGoc]_vars

\* The threads that called get_or_create(c) on b
Callers(b, c) ==
  {t \in Threads : threads[t].op = "get_or_create"
                     /\ threads[t].b = b /\ threads[t].c = c}
Returned(t) == threads[t].pc = "done" /\ threads[t].err = "none"
\* The Manufacturers constructed for class c so far
CreatedFor(b, c) == {NewMfr(t, c) : t \in {u \in Callers(b, c) : threads[u].created}}

\* C21: when threads call get_or_create(cls) concurrently for the same class
\* on one Broker, no call fails, at most one Manufacturer is ever
\* constructed for the class, and every call that has returned returned the
\* one Manufacturer that was constructed, which is the one get(cls) returns.
C21_GetOrCreateOnce ==
  /\ \A t \in Threads : threads[t].err = "none"
  /\ \A c \in GocClasses :
       /\ Cardinality(CreatedFor(TheBroker, c)) <= 1
       /\ \A t \in Callers(TheBroker, c) :
            threads[t].pc = "done" =>
              /\ CreatedFor(TheBroker, c) = {threads[t].ret}
              /\ broker_mfrs[TheBroker][c] = threads[t].ret
              /\ broker_ref[threads[t].ret] = TheBroker

\* Three calls for one class have returned, and at least two of them found
\* no Manufacturer at their first read
C21_Witness ==
  \E c \in GocClasses :
    /\ Callers(TheBroker, c) = Threads
    /\ \A t \in Threads : Returned(t)
    /\ Cardinality({t \in Threads : threads[t].slow}) >= 2
    /\ Cardinality(CreatedFor(TheBroker, c)) = 1

----------------------------------------------------------------------------
(* The other calls, as threads *)

\* The frames of m.register(key, ...), m.merge(mfr), m.default = key,
\* b.register(m, override) and m.make(...) with an object spec of class c
RegisterFrame(m, key) ==
  [NoFrame EXCEPT !.op = "register", !.pc = "register", !.m = m, !.key = key]
MergeFrame(m, mfr) ==
  [NoFrame EXCEPT !.op = "merge", !.pc = "merge_validate", !.m = m,
                  !.mfr = mfr]
DefaultFrame(m, key) ==
  [NoFrame EXCEPT !.op = "default", !.pc = "default", !.m = m, !.key = key]
BrokerRegisterFrame(b, m, override) ==
  [NoFrame EXCEPT !.op = "Broker.register", !.pc = "breg_lock", !.b = b,
                  !.m = m, !.override = override]
MakeFrame(m, c) ==
  [NoFrame EXCEPT !.op = "make", !.pc = "make_hold", !.m = m, !.c = c]

\* Manufacturer.register: the block `with self._lock` of _register
ThreadRegister(t) ==
  /\ threads[t].pc = "register"
  /\ CanAcquire(threads[t].m, t)
  /\ LET f == threads[t]
         fct == NewFactory(next_id, cls(f.m), "create")
     IN  \E r \in {_register(user_fcts[f.m], builtin_fcts[f.m], f.key, fct,
                             TRUE, FALSE, FALSE)} :
           /\ user_fcts' = [user_fcts EXCEPT ![f.m] = r.uf]
           /\ next_id' = IF r.err = "none" THEN next_id + 1 ELSE next_id
           /\ threads' = [threads EXCEPT ![t] =
                [f EXCEPT !.pc = "done", !.err = r.err,
                          !.acquired = @ + 1]]
  /\ UNCHANGED <<builtin_fcts, default, brkvars, dfs, locks, last>>

\* Manufacturer.merge(mfr), override and ignore_collision both False:
\* self._validate_merge(...), which takes no lock
MergeValidate(t) ==
  /\ threads[t].pc = "merge_validate"
  /\ LET f == threads[t]
     IN  \E v \in {_validate_merge(f.m, f.mfr, None, FALSE, FALSE, <<"/">>)} :
           threads' = [threads EXCEPT ![t] =
             IF v.err # "none" THEN [f EXCEPT !.pc = "done", !.err = v.err]
             ELSE [f EXCEPT !.pc = "merge_key",
                            !.keys = KeyList(user_fcts[f.mfr])]]
  /\ UNCHANGED <<regvars, brkvars, dfs, locks, last>>

\* Manufacturer._merge: one round of the loop, fct = mfr.get(key) and the
\* block `with self._lock` of self._register(key, fct, None, override)
MergeKey(t) ==
  /\ threads[t].pc = "merge_key"
  /\ threads[t].keys # <<>>
  /\ CanAcquire(threads[t].m, t)
  /\ LET f == threads[t]
         key == Head(f.keys)
         fct == get_in(builtin_fcts[f.mfr], user_fcts[f.mfr], key)
     IN  \E r \in {_register(user_fcts[f.m], builtin_fcts[f.m], key, fct,
                             FALSE, FALSE, FALSE)} :
           /\ user_fcts' = [user_fcts EXCEPT ![f.m] = r.uf]
           /\ threads' = [threads EXCEPT ![t] =
                IF r.err # "none"
                THEN [f EXCEPT !.pc = "done", !.err = r.err,
                               !.acquired = @ + 1]
                ELSE [f EXCEPT !.keys = Tail(f.keys), !.acquired = @ + 1]]
  /\ UNCHANGED <<builtin_fcts, default, next_id, brkvars, dfs, locks, last>>

\* Manufacturer._merge: the loop is over, merge returns
MergeReturn(t) ==
  /\ threads[t].pc = "merge_key"
  /\ threads[t].keys = <<>>
  /\ threads' = [threads EXCEPT ![t].pc = "done"]
  /\ UNCHANGED <<regvars, brkvars, dfs, locks, last>>

----------------------------------------------------------------------------
(* A merge that runs while other threads register in the same Manufacturer *)

\* The keys of the Manufacturer that is merged, and a key it does not hold
RaceKeys == {<<"j">>, <<"k">>, <<"x">>}

\* m1.merge(m2) in one thread and m1.register(key, ...) in two others; m2
\* holds units under "j" and "k", m1 holds none
InitRace ==
  /\ user_fcts = [m \in Mfrs |->
                    IF m = "m2"
                    THEN <<<<<<"j">>, NewFactory(1, "A1", "create")>>,
                           <<<<"k">>, NewFactory(2, "A1", "create")>>>>
                    ELSE <<>>]
  /\ builtin_fcts = [m \in Mfrs |-> _install_builtins(m)]
  /\ default = [m \in Mfrs |-> None]
  /\ next_id = 3
  /\ broker_mfrs = [b \in Brokers |-> [c \in Classes |-> NoMfr]]
  /\ brokers = [b \in Brokers |-> "held"]
  /\ broker_ref = [m \in Mfrs |-> NoBroker]
  /\ bind_attr = [m \in Mfrs |-> "method"]
  /\ dfs = Idle
  /\ \E k2 \in RaceKeys, k3 \in RaceKeys :
       threads = [t \in Threads |->
                    CASE t = "t1" -> MergeFrame("m1", "m2")
                      [] t = "t2" -> RegisterFrame("m1", k2)
                      [] t = "t3" -> RegisterFrame("m1", k3)]
  /\ locks = [l \in Mfrs |-> Free]
  /\ last = NoCall

NextRace ==
  \/ \E t \in Threads : ThreadRegister(t)
  \/ \E t \in Threads : MergeValidate(t)
  \/ \E t \in Threads : MergeKey(t)
  \/ \E t \in Threads : MergeReturn(t)

SpecRace == InitRace /\ [][NextRace]_vars

\* The units of mfr that m holds under their keys
MergedUnits(m, mfr) ==
  {k \in DictKeys(user_fcts[mfr]) :
     DictGet(user_fcts[m], k, NoFct) = DictGet(user_fcts[mfr], k, NoFct)}

\* C23: a merge with override false and ignore_collision false that runs
\* concurrently with register calls on the same Manufacturer has, once it has
\* returned or raised, either added all of the other Manufacturer's user
\* units, or raised KeyConflictError and added none.
C23_MergeAtomic ==
  \A t \in Threads :
    (threads[t].op = "merge" /\ threads[t].pc = "done") =>
      \/ /\ threads[t].err = "none"
         /\ MergedUnits(threads[t].m, threads[t].mfr)
              = DictKeys(user_fcts[threads[t].mfr])
      \/ /\ threads[t].err = "KeyConflictError"
         /\ MergedUnits(threads[t].m, threads[t].mfr) = {}

----------------------------------------------------------------------------
(* Locks: every call of the library as a thread, over two Brokers *)

\* A _detach that would enter its body and take the lock of its Broker
detach_requests_lock(brk, mfr) == {_broker_ref(brk, mfr)} \ {NoBroker}
\* The locks that _broker._detach(self._cls) requests when Manufacturer._bind
\* calls it: none, the call raises TypeError before the body of _detach
detach_requests(brk, mfr) == {}

\* The locks that the next step of thread t requests
Requested(t) ==
  LET f == threads[t]
  IN  CASE f.pc \in {"goc_lock", "breg_lock"} -> {f.b}
        [] f.pc \in {"register", "default", "bind_lock", "make_hold",
                     "make_node", "make_resolve"} -> {f.m}
        [] f.pc = "merge_key" /\ f.keys # <<>> -> {f.m}
        [] f.pc = "bind_body" -> detach_requests(TheBrk, f.m)
        [] OTHER -> {}

\* Manufacturer.default (setter), under the lock
ThreadDefault(t) ==
  /\ threads[t].pc = "default"
  /\ CanAcquire(threads[t].m, t)
  /\ LET f == threads[t]
     IN  \E r \in {set_default(f.m, f.key)} :
           /\ default' = [default EXCEPT ![f.m] = r.default]
           /\ threads' = [threads EXCEPT ![t] =
                [f EXCEPT !.pc = "done", !.err = r.err, !.acquired = @ + 1]]
  /\ UNCHANGED <<user_fcts, builtin_fcts, next_id, brkvars, dfs, locks, last>>

\* Broker._register: with self._lock
BrokerRegisterLock(t) ==
  /\ threads[t].pc = "breg_lock"
  /\ CanAcquire(threads[t].b, t)
  /\ locks' = Acquire(locks, threads[t].b, t)
  /\ threads' = [threads EXCEPT ![t].pc = "breg_check",
                                 ![t].acquired = @ + 1]
  /\ UNCHANGED <<regvars, brkvars, dfs, last>>

\* Broker._register under the lock: the class check, the pop of the
\* incumbent, the lookup of mfr._bind; an exception leaves the block
BrokerRegisterCheck(t) ==
  /\ threads[t].pc = "breg_check"
  /\ LET f == threads[t]
     IN  \E r \in {register_pop(f.b, TheBrk, f.m, f.override)} :
           /\ SetBrk(r.brk)
           /\ threads' = [threads EXCEPT ![t] =
                IF r.err # "none" THEN [f EXCEPT !.pc = "done", !.err = r.err]
                ELSE [f EXCEPT !.pc = "bind_lock"]]
           /\ locks' = IF r.err # "none" THEN Release(locks, f.b) ELSE locks
  /\ UNCHANGED <<regvars, dfs, last>>

\* Manufacturer._bind: @_lock
BindLock(t) ==
  /\ threads[t].pc = "bind_lock"
  /\ CanAcquire(threads[t].m, t)
  /\ locks' = Acquire(locks, threads[t].m, t)
  /\ threads' = [threads EXCEPT ![t].pc = "bind_body",
                                 ![t].acquired = @ + 1]
  /\ UNCHANGED <<regvars, brkvars, dfs, last>>

\* Manufacturer._bind under the lock, then self._mfrs[cls] = mfr; both
\* locks are released on the way out
BindBody(t) ==
  /\ threads[t].pc = "bind_body"
  /\ \A l \in Requested(t) : CanAcquire(l, t)
  /\ LET f == threads[t]
     IN  \E r \in {bind_store(f.b, TheBrk, f.m)} :
           /\ SetBrk(r.brk)
           /\ threads' = [threads EXCEPT ![t] =
                [f EXCEPT !.pc = "done", !.err = r.err,
                          !.acquired = @ + Cardinality(Requested(t))]]
           /\ locks' = Release(Release(locks, f.m), f.b)
  /\ UNCHANGED <<regvars, dfs, last>>

\* Manufacturer.make: the reads of self._broker, each under the
\* Manufacturer's lock: the reference _make holds, then for the node of
\* class c the test for None and the Broker whose get_or_create is called
MakeBroker(t) ==
  /\ threads[t].pc \in {"make_hold", "make_node", "make_resolve"}
  /\ CanAcquire(threads[t].m, t)
  /\ LET f == threads[t]
         _brk == _broker(TheBrk, f.m)
     IN  threads' = [threads EXCEPT ![t] =
           CASE f.pc = "make_hold" ->
                  [f EXCEPT !.pc = "make_node", !.acquired = @ + 1]
             [] f.pc = "make_node" /\ _brk = NoBroker ->
                  [f EXCEPT !.pc = "done", !.err = "GraphError",
                            !.acquired = @ + 1]
             [] f.pc = "make_node" /\ _brk # NoBroker ->
                  [f EXCEPT !.pc = "make_resolve", !.acquired = @ + 1]
             [] f.pc = "make_resolve" /\ _brk = NoBroker ->
                  [f EXCEPT !.pc = "done", !.err = "AttributeError",
                            !.acquired = @ + 1]
             [] OTHER ->
                  [f EXCEPT !.pc = "goc_get", !.b = _brk, !.acquired = @ + 1]]
  /\ UNCHANGED <<regvars, brkvars, dfs, locks, last>>

\* The Manufacturers of the application: mA is registered in the first
\* Broker, mB in the second, mB2 in none
LockMfrs == {"mA", "mB", "mB2"}
\* The threads that run a call
LockThreads == {"t1", "t2"}
\* The calls a thread runs
LockCalls ==
  {BrokerRegisterFrame(b, m, o) : b \in Brokers, m \in LockMfrs, o \in BOOLEAN}
    \cup {GetOrCreateFrame(b, c) : b \in Brokers, c \in GocClasses}
    \cup {RegisterFrame(m, <<"k">>) : m \in {"mA", "mB"}}
    \cup {MergeFrame("mB", "mB2"), DefaultFrame("mA", CreateKey)}
    \cup {MakeFrame("mA", "B"), MakeFrame("mB", "A"), MakeFrame("mB2", "A")}

InitLocks ==
  /\ user_fcts = [m \in LockMfrs \cup NewMfrs |->
                    CASE m = "mB2" -> <<<<<<"extra">>, BrokerFactory(m)>>>>
                      [] m \in {"mA", "mB"} ->
                           <<<<CreateKey, BrokerFactory(m)>>>>
                      [] OTHER -> <<>>]
  /\ builtin_fcts = [m \in LockMfrs \cup NewMfrs |-> _install_builtins(m)]
  /\ default = [m \in LockMfrs \cup NewMfrs |-> None]
  /\ next_id = 9
  /\ broker_mfrs = [b \in Brokers |-> [c \in GocClasses |->
                      IF b = TheBroker /\ c = "A" THEN "mA"
                      ELSE IF b # TheBroker /\ c = "B" THEN "mB" ELSE NoMfr]]
  /\ brokers = [b \in Brokers |-> "held"]
  /\ broker_ref = [m \in LockMfrs \cup NewMfrs |->
                     CASE m = "mA" -> TheBroker [] m = "mB" -> "brk2"
                       [] OTHER -> NoBroker]
  /\ bind_attr = [m \in LockMfrs \cup NewMfrs |-> "method"]
  /\ dfs = Idle
  /\ \E c1 \in LockCalls, c2 \in LockCalls :
       threads = [t \in Threads |->
                    CASE t = "t1" -> c1 [] t = "t2" -> c2 [] OTHER -> NoFrame]
  /\ locks = [l \in Brokers \cup LockMfrs \cup NewMfrs |-> Free]
  /\ last = NoCall

\* The steps of thread t
ThreadStep(t) ==
  \/ GocGet(t) \/ GocLock(t) \/ GocCreate(t) \/ GocRead(t)
  \/ ThreadRegister(t) \/ MergeValidate(t) \/ MergeKey(t) \/ MergeReturn(t)
  \/ ThreadDefault(t)
  \/ BrokerRegisterLock(t) \/ BrokerRegisterCheck(t)
  \/ BindLock(t) \/ BindBody(t)
  \/ MakeBroker(t)

NextLocks == \E t \in LockThreads : ThreadStep(t)

SpecLocks == InitLocks /\ [][NextLocks]_vars
\* The scheduler runs every thread that can take a step
FairSpecLocks == SpecLocks /\ \A t \in LockThreads : WF_vars(ThreadStep(t))

\* The most lock requests one call makes
MaxAcquired == 4

\* C22: no interleaving of the calls deadlocks: a thread whose next step
\* requests a lock of a Manufacturer or of a Broker is eventually granted it.
C22_NoDeadlock ==
  \A t \in LockThreads : \A n \in 0..MaxAcquired :
    (Requested(t) # {} /\ threads[t].acquired = n)
      ~> (threads[t].acquired > n)

\* A thread waits for a lock that the other thread holds, and the holder is
\* inside the _bind of a Manufacturer that is bound to the other Broker
C22_Witness ==
  \E t \in LockThreads, u \in LockThreads :
    /\ t # u
    /\ \E l \in Requested(t) : locks[l].owner = u
    /\ threads[u].op = "Broker.register" /\ threads[u].pc = "bind_body"
    /\ _broker_ref(TheBrk, threads[u].m) \notin {NoBroker, threads[u].b}

----------------------------------------------------------------------------
(* Parameters of class dict: a unit "use" of A that takes a dict, and the   *)
(* Manufacturer of dict that Broker.get_or_create(dict) creates            *)

\* dict_lib.FACTORIES: the units a Manufacturer of dict is seeded with
DictFactories ==
  <<<<<<"from-config">>, NewFactory(2, "dict", "load_config")>>,
    <<<<"direct">>, NewFactory(3, "dict", "direct")>>>>

\* _PrimitiveManufacturer._install_builtins: the user and builtin partitions
\* after self._register(misc.join_reserved(k), **f()) for each seeded unit
RECURSIVE install_primitives(_, _, _)
install_primitives(uf, bf, fcts) ==
  IF fcts = <<>> THEN [uf |-> uf, bf |-> bf]
  ELSE LET r == _register(uf, bf, join_reserved(fcts[1][1]), fcts[1][2],
                          TRUE, FALSE, FALSE)
       IN  install_primitives(r.uf, r.bf, Tail(fcts))
_PrimitiveManufacturer(m) ==
  install_primitives(<<>>, _install_builtins(m), DictFactories)

DictMfrs == {"mA", "autoA", "autoD"}
UseKey == <<"use">>
\* The keys of the units an application registers for dict
DictUnitKeys == {<<"mk">>, <<"alt">>}
MaxDictUnits == 2

\* A dict whose only key is the string s (a sequence of tokens)
DS(s, v) == DictV(<<<<StrV(s), v>>>>)
\* The two forms of an object spec, and the same with the entries swapped
KeyForm(k, i) == DictV(<<<<k, i>>>>)
KeyInputsForm(k, i) == DictV(<<<<KEY, k>>, <<INPUTS, i>>>>)
InputsKeyForm(k, i) == DictV(<<<<INPUTS, i>>, <<KEY, k>>>>)
\* Keys and inputs of the manifests
ManifestKeys ==
  {StrV(<<"mk">>), StrV(<<"alt">>), StrV(<<"nokey">>),
   StrV(join_reserved(<<"direct">>))}
ManifestInputs ==
  {D1("u", IntV(1)), D1("bad", IntV(1)), IntV(5),
   D1("value", D1("x", IntV(1))), D1("value", D1("mk", D1("u", IntV(1)))),
   D1("value", IntV(1))}
\* The dicts given for the parameter d
DictManifests ==
  {KeyForm(k, i) : k \in ManifestKeys, i \in ManifestInputs}
    \cup {KeyInputsForm(k, i) : k \in ManifestKeys, i \in ManifestInputs}
    \cup {InputsKeyForm(StrV(<<"mk">>), D1("u", IntV(1))),
          KeyInputsForm(IntV(5), D1("u", IntV(1))),
          KeyForm(IntV(1), IntV(2)),
          DictV(<<>>),
          D2("key", StrV(<<"mk">>), "value", IntV(1)),
          DictV(<<<<KEY, StrV(<<"mk">>)>>, <<INPUTS, D1("u", IntV(1))>>,
                  <<VALUE, IntV(1)>>>>)}

\* A Broker with the Manufacturer of A; the Manufacturer of dict is created
\* by the first get_or_create(dict)
InitDict ==
  /\ user_fcts = [m \in DictMfrs |->
                    CASE m = "mA" -> <<<<UseKey, NewFactory(1, "A", "A_dict")>>>>
                      [] m = "autoD" -> _PrimitiveManufacturer(m).uf
                      [] OTHER -> <<>>]
  /\ builtin_fcts = [m \in DictMfrs |->
                       IF m = "autoD" THEN _PrimitiveManufacturer(m).bf
                       ELSE _install_builtins(m)]
  /\ default = [m \in DictMfrs |-> None]
  /\ next_id = 4
  /\ broker_mfrs = [b \in Brokers |-> [c \in {"A", "dict"} |->
                      IF b = TheBroker /\ c = "A" THEN "mA" ELSE NoMfr]]
  /\ brokers = [b \in Brokers |-> "held"]
  /\ broker_ref = [m \in DictMfrs |->
                     IF m = "mA" THEN TheBroker ELSE NoBroker]
  /\ bind_attr = [m \in DictMfrs |-> "method"]
  /\ dfs = Idle
  /\ threads = NoThreads
  /\ locks = NoLocks
  /\ last = NoCall

\* broker.get_or_create(dict).register(key, mk, {"u": int})
RegisterDict(key) ==
  /\ next_id < 4 + MaxDictUnits
  /\ \E g \in {get_or_create(TheBroker, TheBrk, "dict")} :
     \E fct \in {NewFactory(next_id, "dict", "D_mk")} :
     \E r \in {_register(user_fcts[g.mfr], builtin_fcts[g.mfr], key, fct,
                         TRUE, FALSE, FALSE)} :
       /\ SetBrk(g.brk)
       /\ user_fcts' = [user_fcts EXCEPT ![g.mfr] = r.uf]
       /\ next_id' = IF r.err = "none" THEN next_id + 1 ELSE next_id
       /\ last' = [NoCall EXCEPT !.op = "register", !.m = g.mfr, !.key = key,
                     !.err = r.err, !.fct = fct]
  /\ UNCHANGED <<thrvars, builtin_fcts, default, dfs>>

NextDict ==
  \/ \E key \in DictUnitKeys : RegisterDict(key)
  \/ \E d \in DictManifests : Make("mA", UseKey, D1("d", d))

SpecDict == InitDict /\ [][NextDict]_vars

\* A make of the unit "use", the manifest given for its parameter d, and
\* the value the callable received for d
IsDictMake == last'.op = "make" /\ last'.m = "mA" /\ last'.key = UseKey
DManifest == DictGet(last'.inputs.dict, S("d"), NoneV)
PassedD == DictGet(last'.result.kwargs, S("d"), NoneV)
\* The Manufacturer of dict of the Broker at the moment of the call, the key
\* taken from a manifest in one of the two forms, and the unit under it
DictRegistry == get_or_create(TheBroker, TheBrk, "dict").mfr
ExtractedKey == ObjectSpec_parse(DManifest).val.objspec
ResolvedUnit ==
  IF is_object_spec(DManifest) /\ Is(ExtractedKey, "str")
  THEN get(DictRegistry, ExtractedKey.str) ELSE NoFct

\* C24: a dict given for a parameter of class dict is realized by invoking a
\* unit if and only if it has one of the two forms of an object spec and the
\* Manufacturer of dict holds a unit under its key at that moment; in every
\* other case the callable receives the dict itself.
C24_DictDisambiguation ==
  [][IsDictMake =>
       IF ResolvedUnit # NoFct
       THEN last'.err = "none" =>
              \E i \in 1..Len(last'.calls) :
                /\ last'.calls[i].fct = ResolvedUnit
                /\ PassedD = fn(ResolvedUnit, last'.calls[i].kwargs)
       ELSE /\ last'.err = "none"
            /\ PassedD = DManifest
            /\ Len(last'.calls) = 1]_vars

\* The key "afb/direct", the unit it is seeded for, and a manifest that
\* names it with a dict as its value
DirectKey == join_reserved(<<"direct">>)
DirectUnit == DictFactories[2][2]
IsDirectManifest ==
  /\ Len(DManifest.dict) = 1
  /\ DManifest.dict[1][1] = StrV(DirectKey)
  /\ Is(DManifest.dict[1][2], "dict")
  /\ Is(DictGet(DManifest.dict[1][2].dict, VALUE, NoneV), "dict")
DirectValue == DictGet(DManifest.dict[1][2].dict, VALUE, NoneV)

\* C27: the units the Manufacturer of dict is seeded with are builtin units:
\* get("afb/direct") is the direct unit, and a make whose parameter of class
\* dict is given {"afb/direct": {"value": d}} passes the dict d itself to the
\* callable, also when d has the form of an object spec.
C27_DirectUnit ==
  [][(IsDictMake /\ IsDirectManifest) =>
       /\ get(DictRegistry, DirectKey) = DirectUnit
       /\ last'.err = "none"
       /\ PassedD = DirectValue]_vars

----------------------------------------------------------------------------
(* Merges called without merge options *)

\* Manufacturer.merge: the defaults of its signature
merge_defaults ==
  [root |-> None, override |-> FALSE, ignore_collision |-> TRUE,
   sep |-> <<"/">>]

\* Broker.classes: the registered classes, sorted by qualified name
QualnameOrder == <<"A", "B", "C">>
classes(brk, self) ==
  SelectSeq(QualnameOrder, LAMBDA c : brk.mfrs[self][c] # NoMfr)

\* Broker._merge_mfr(mfr) with no merge options: uf is the user partition
\* of every Manufacturer
_merge_mfr(self, brk, uf, mfr) ==
  LET g == get_or_create(self, brk, cls(mfr))
      r == merge(g.mfr, mfr, merge_defaults.root, merge_defaults.override,
                 merge_defaults.ignore_collision, merge_defaults.sep)
  IN  [err |-> r.err, brk |-> g.brk, uf |-> [uf EXCEPT ![g.mfr] = r.uf],
       m |-> g.mfr]

\* Broker._merge(broker) with no merge options: the loop over broker.classes
\* from its i-th class on.  Each class is merged into a different
\* Manufacturer of self, so every merge reads the partitions of the call's
\* start.
RECURSIVE Broker_merge_loop(_, _, _, _, _, _)
Broker_merge_loop(self, brk, uf, broker, cs, i) ==
  IF i > Len(cs) THEN [err |-> "none", brk |-> brk, uf |-> uf]
  ELSE LET r == _merge_mfr(self, brk, uf, brk.mfrs[broker][cs[i]])
       IN  IF r.err # "none" THEN [err |-> r.err, brk |-> r.brk, uf |-> r.uf]
           ELSE Broker_merge_loop(self, r.brk, r.uf, broker, cs, i + 1)

\* The keys the units are registered under
OmittedKeys == {<<"k">>, <<"j">>}
OmittedRoots == {None, <<"r">>}

\* brk holds mA and mB, brk2 holds mB2; no unit is registered yet
InitOmitted ==
  /\ user_fcts = [m \in AllMfrs |-> <<>>]
  /\ builtin_fcts = [m \in AllMfrs |-> _install_builtins(m)]
  /\ default = [m \in AllMfrs |-> None]
  /\ next_id = 1
  /\ broker_mfrs = [b \in Brokers |-> [c \in MakeClasses |->
                      IF b = TheBroker /\ c = "A" THEN "mA"
                      ELSE IF b = TheBroker /\ c = "B" THEN "mB"
                      ELSE IF b # TheBroker /\ c = "B" THEN "mB2"
                      ELSE NoMfr]]
  /\ brokers = [b \in Brokers |-> "held"]
  /\ broker_ref = [m \in AllMfrs |->
                     IF m \in {"mA", "mB"} THEN TheBroker
                     ELSE IF m = "mB2" THEN "brk2" ELSE NoBroker]
  /\ bind_attr = [m \in AllMfrs |-> "method"]
  /\ dfs = Idle
  /\ threads = NoThreads
  /\ locks = NoLocks
  /\ last = NoCall

\* m.merge(mfr, root=root), ignore_collision and override not given
MergeOmitted(m, mfr, root) ==
  /\ \E r \in {merge(m, mfr, root, merge_defaults.override,
                     merge_defaults.ignore_collision, merge_defaults.sep)} :
         /\ Len(r.uf) <= MaxEntries
         /\ user_fcts' = [user_fcts EXCEPT ![m] = r.uf]
         /\ last' = [NoCall EXCEPT !.op = "merge", !.m = m, !.mfr = mfr,
                       !.root = root, !.what = "omitted", !.err = r.err,
                       !.collisions = r.collisions]
  /\ UNCHANGED <<thrvars, builtin_fcts, default, next_id, brkvars, dfs>>

\* b.merge_mfr(mfr), no merge options
BrokerMergeMfr(b, mfr) ==
  /\ \E r \in {_merge_mfr(b, TheBrk, user_fcts, mfr)} :
         /\ Len(r.uf[r.m]) <= MaxEntries
         /\ user_fcts' = r.uf
         /\ SetBrk(r.brk)
         /\ last' = [NoCall EXCEPT !.op = "Broker.merge_mfr", !.broker = b,
                       !.m = r.m, !.mfr = mfr, !.what = "omitted",
                       !.err = r.err]
  /\ UNCHANGED <<thrvars, builtin_fcts, default, next_id, dfs>>

\* b.merge(broker), no merge options
BrokerMerge(b, broker) ==
  /\ \E r \in {Broker_merge_loop(b, TheBrk, user_fcts, broker,
                                 classes(TheBrk, broker), 1)} :
         /\ \A m \in AllMfrs : Len(r.uf[m]) <= MaxEntries
         /\ user_fcts' = r.uf
         /\ SetBrk(r.brk)
         /\ last' = [NoCall EXCEPT !.op = "Broker.merge", !.broker = b,
                       !.what = "omitted", !.err = r.err,
                       !.listed = {broker}]
  /\ UNCHANGED <<thrvars, builtin_fcts, default, next_id, dfs>>

NextOmitted ==
  \/ \E m \in Movable, key \in OmittedKeys :
        Register(m, key, "create", FALSE)
  \/ \E m \in Movable, mfr \in Movable, root \in OmittedRoots :
        MergeOmitted(m, mfr, root)
  \/ \E mfr \in Movable : BrokerMergeMfr(TheBroker, mfr)
  \/ BrokerMerge(TheBroker, "brk2")

SpecOmitted == InitOmitted /\ [][NextOmitted]_vars

\* The Manufacturers of self that a call merged into, each with its source
MergedPairs ==
  IF last'.op = "Broker.merge"
  THEN {<<TheBrk.mfrs[last'.broker][c], TheBrk.mfrs["brk2"][c]>> :
          c \in {c \in MakeClasses : /\ TheBrk.mfrs["brk2"][c] # NoMfr
                                     /\ TheBrk.mfrs[last'.broker][c] # NoMfr}}
  ELSE {<<last'.m, last'.mfr>>}
\* Some merged key already exists among the user keys of its target
OmittedCollides ==
  \E p \in MergedPairs :
     /\ p[1] # p[2]
     /\ \E k \in DictKeys(user_fcts[p[2]]) :
           merged_name(last'.root, k, merge_defaults.sep)
             \in DictKeys(user_fcts[p[1]])

\* C25: a merge called without ignore_collision and override (Manufacturer
\* .merge, Broker.merge, Broker.merge_mfr) behaves as ignore_collision=False:
\* when a merged key already exists among the user keys of the target, the
\* call raises KeyConflictError instead of silently keeping the original.
C25_OmittedIsFalse ==
  [][(last'.what = "omitted" /\ OmittedCollides)
       => last'.err = "KeyConflictError"]_vars

----------------------------------------------------------------------------
(* make on a Manufacturer that no Broker holds *)

\* C26: GraphError is raised only when an object of another class is to be
\* constructed: a make on a Manufacturer bound to no Broker, with a
\* registered key and inputs that are all realized values, does not raise
\* GraphError; it invokes the callable and returns its result.
C26_UnboundRealized ==
  [][(/\ last'.op = "make"
      /\ broker_ref[last'.m] = NoBroker
      /\ IsRealizedCall)
     =>
       /\ last'.err # "GraphError"
       /\ Len(last'.calls) = 1
       /\ last'.calls[1].fct = CalledUnit
       /\ last'.result = fn(CalledUnit, last'.calls[1].kwargs)
    ]_vars

----------------------------------------------------------------------------
(* make: the manifest tree is validated before any callable is invoked *)

\* The failures of the validation of a manifest tree
ValidationErrors ==
  {"ArgumentError", "InvalidFormatError", "KeyError", "GraphError"}

\* C28: a make that fails with ArgumentError, InvalidFormatError, KeyError
\* (a key that resolves to no unit) or GraphError has invoked no registered
\* callable of any node of the manifest.
C28_ValidatedBeforeBuilt ==
  [][(IsMakeCall /\ last'.err \in ValidationErrors) => last'.calls = <<>>]_vars
\* The three failures after a valid object spec of the same manifest
C28_Witness ==
  /\ last.op = "make" /\ last.m = "mC"
  /\ last.inputs \in LateFailures
  /\ last.err \in ValidationErrors
  /\ last.calls = <<>>

----------------------------------------------------------------------------
(* make after the Broker has replaced the Manufacturer *)

\* C29: a make on the Manufacturer M invokes the unit that M itself holds
\* under the key (the unit M.get(key) returns), also after the Broker of M
\* has registered another Manufacturer for the class with override=True;
\* the unit is never taken from another Manufacturer of the class.
C29_OwnUnit ==
  [][(last'.op = "make" /\ last'.calls # <<>>)
       => last'.calls[Len(last'.calls)].fct = get(last'.m, last'.key)]_vars

----------------------------------------------------------------------------
(* Broker.register that raises *)

\* C30: Broker.register is all-or-nothing: when a call raises, the map from
\* classes to Manufacturers of the Broker is the same as before the call; and
\* register(M, override=True) of the Manufacturer M that is registered for
\* its class already leaves M registered and bound to the Broker.
C30_AllOrNothing ==
  [][/\ (IsBrokerRegister /\ last'.err # "none")
          => broker_mfrs'[last'.broker] = broker_mfrs[last'.broker]
     /\ (IsBrokerRegister /\ last'.override /\ Incumbent = last'.m)
          => /\ get_cls_after = last'.m
             /\ _broker(TheBrk', last'.m) = last'.broker
    ]_vars

============================================================================
